---- MODULE Spec2Model ----
(***************************************************************************)
(* Model of the manufacturing-and-delivery simulation: Client, Machine,    *)
(* Truck and the System orchestrator (src/client.py, src/machine.py,       *)
(* src/truck.py, src/system.py).                                           *)
(*                                                                         *)
(* Quantities.  The program holds quantities as floats that are sums and   *)
(* differences of 1.0, 0.5 and 1/3.  The model holds them as integers in   *)
(* sixths of a unit: full = 6, half = 3, third = 2.  Payments are held in  *)
(* sixths of a payment unit (quantity in sixths times the integer rate).   *)
(***************************************************************************)
EXTENDS Integers, Sequences, FiniteSets, TLC

\* ---------------------------------------------------------------- bounds
\* M1 may draw raw material only while raw_material_consumed stays <= MaxRaw.
MaxRaw == 8
\* Spec issues step() only while an active order's time_passed is < MaxTime.
MaxTime == 4
\* SpecLong issues step() only while an active order's time_passed is < MaxLongTime.
MaxLongTime == 9
\* step() is issued only while no delivering truck's time_remaining is at or
\* below -MaxOverdue.
MaxOverdue == 1
\* maintenance is requested only while total_operator_time is < MaxOperatorTime.
MaxOperatorTime == 1
\* the strategy-only runs sample at most MaxNone "none" outcomes.
MaxNone == 2

\* ------------------------------------------------------------- constants
Den == 6                       \* the model's unit: one sixth
Full == 6
Half == 3
Third == 2

BatchSizes == {"full", "half", "third"}

\* machine.py:94 raw_material_needed, machine.py:133 output_quantity
Quantity(size) ==
    CASE size = "full" -> Full
      [] size = "half" -> Half
      [] size = "third" -> Third
      [] OTHER -> 0

\* Machine.__init__ defaults
processing_times == [full |-> 3, half |-> 2, third |-> 1]
maintenance_time == 2
maintenance_operator_cost == 1

\* outcome tables, weights in percent
success_probabilities ==
    [full  |-> [full |-> 70, half |-> 5, third |-> 20, none |-> 5],
     half  |-> [full |-> 0,  half |-> 80, third |-> 15, none |-> 5],
     third |-> [full |-> 0,  half |-> 0,  third |-> 85, none |-> 15]]

maintenance_effect ==
    [full  |-> [full |-> 75, half |-> 15, third |-> 5, none |-> 5],
     half  |-> [full |-> 0,  half |-> 85, third |-> 10, none |-> 5],
     third |-> [full |-> 0,  half |-> 0,  third |-> 90, none |-> 10]]

OutcomeNames == {"full", "half", "third", "none"}

\* Client.__init__ defaults
Priorities == {"low", "medium", "high"}
priority_distribution == [low |-> 40, medium |-> 50, high |-> 10]
order_penalties ==
    [low    |-> [time_limit |-> 20, in_time_payment |-> 5,  out_of_time_payment |-> 1],
     medium |-> [time_limit |-> 15, in_time_payment |-> 10, out_of_time_payment |-> 2],
     high   |-> [time_limit |-> 10, in_time_payment |-> 15, out_of_time_payment |-> 1]]

\* System.__init__ truck configuration
SmallCapacity == Third
SmallTimeToDeliver == 2
BigCapacity == Full
BigTimeToDeliver == 3

Min(a, b) == IF a <= b THEN a ELSE b
Max(a, b) == IF a >= b THEN a ELSE b

\* ----------------------------------------------------------------- state
VARIABLES
    client,        \* Client fields
    m1, m2,        \* Machine fields
    small_truck,   \* Truck fields
    big_truck,
    command,       \* name of the last System method called
    started,       \* what the entity request of that call returned
    pre,           \* the entities as they were when that call was made
    returned,      \* what that call returned
    noneCount      \* "none" outcomes sampled since construction or reset

sys == <<client, m1, m2, small_truck, big_truck>>
vars == <<client, m1, m2, small_truck, big_truck, command, started, pre, returned, noneCount>>

Snapshot == [client |-> client, m1 |-> m1, m2 |-> m2,
             small_truck |-> small_truck, big_truck |-> big_truck]

\* ---------------------------------------------------------------- Client
\* Client.__init__
ClientNew ==
    [state |-> "idle", time_passed |-> 0, order_quantity |-> 0,
     current_payment |-> 0, current_priority |-> "none"]

\* Client.reset
ClientReset(c) == ClientNew

\* Client.place_order with the sampled priority p; raises unless idle
PlaceOrderOk(c) == c.state = "idle"
ClientPlaceOrder(c, p) ==
    IF ~PlaceOrderOk(c) THEN c
    ELSE [state |-> "order_placed", time_passed |-> 0, order_quantity |-> 0,
          current_payment |-> 0, current_priority |-> p]

time_limit(c) == order_penalties[c.current_priority].time_limit
in_time_payment(c) == order_penalties[c.current_priority].in_time_payment
out_of_time_payment(c) == order_penalties[c.current_priority].out_of_time_payment

\* mutant: the check that the order is not exceeded is missing
MutQuantityShippedOk(c, quantity) ==
    /\ c.state \in {"order_placed", "wait_for_completion"}
    /\ ~(quantity <= 0)

\* Client.quantity_shipped: the two raise conditions
QuantityShippedOk(c, quantity) ==
    /\ c.state \in {"order_placed", "wait_for_completion"}
    /\ ~(quantity <= 0 \/ c.order_quantity + quantity > Full)

\* mutant: a shipment delivered exactly at the deadline is paid at the late rate
MutClientQuantityShippedRate(c, quantity) ==
    IF ~QuantityShippedOk(c, quantity) THEN c
    ELSE LET payment == IF c.time_passed < time_limit(c)
                        THEN quantity * in_time_payment(c)
                        ELSE quantity * out_of_time_payment(c)
             oq == c.order_quantity + quantity
         IN [c EXCEPT !.order_quantity = oq,
                      !.current_payment = c.current_payment + payment,
                      !.state = IF oq >= Full THEN "completed"
                                ELSE "wait_for_completion"]

\* mutant: the order completes only when order_quantity exceeds 1
MutClientQuantityShipped(c, quantity) ==
    IF ~QuantityShippedOk(c, quantity) THEN c
    ELSE LET payment == IF c.time_passed <= time_limit(c)
                        THEN quantity * in_time_payment(c)
                        ELSE quantity * out_of_time_payment(c)
             oq == c.order_quantity + quantity
         IN [c EXCEPT !.order_quantity = oq,
                      !.current_payment = c.current_payment + payment,
                      !.state = IF oq > Full THEN "completed"
                                ELSE "wait_for_completion"]

\* mutant: the quantity is added before the checks that raise
MutClientQuantityShippedEarly(c, quantity) ==
    IF ~QuantityShippedOk(c, quantity)
    THEN [c EXCEPT !.order_quantity = c.order_quantity + quantity]
    ELSE LET payment == IF c.time_passed <= time_limit(c)
                        THEN quantity * in_time_payment(c)
                        ELSE quantity * out_of_time_payment(c)
             oq == c.order_quantity + quantity
         IN [c EXCEPT !.order_quantity = oq,
                      !.current_payment = c.current_payment + payment,
                      !.state = IF oq >= Full THEN "completed"
                                ELSE "wait_for_completion"]

\* Client.quantity_shipped: the state after the call (unchanged when it raises)
ClientQuantityShipped(c, quantity) ==
    IF ~QuantityShippedOk(c, quantity) THEN c
    ELSE LET payment == IF c.time_passed <= time_limit(c)
                        THEN quantity * in_time_payment(c)
                        ELSE quantity * out_of_time_payment(c)
             oq == c.order_quantity + quantity
         IN [c EXCEPT !.order_quantity = oq,
                      !.current_payment = c.current_payment + payment,
                      !.state = IF oq >= Full THEN "completed"
                                ELSE "wait_for_completion"]

\* mutant: the clock runs on after the order is completed
MutClientStepTimeAlways(c) ==
    IF c.state # "idle"
    THEN [c EXCEPT !.time_passed = c.time_passed + 1]
    ELSE c

\* mutant: the clock runs only once a first delivery has arrived
MutClientStepTimeWaiting(c) ==
    IF c.state = "wait_for_completion"
    THEN [c EXCEPT !.time_passed = c.time_passed + 1]
    ELSE c

\* Client.step_time
ClientStepTime(c) ==
    IF c.state \in {"order_placed", "wait_for_completion"}
    THEN [c EXCEPT !.time_passed = c.time_passed + 1]
    ELSE c

\* --------------------------------------------------------------- Machine
\* Machine.__init__
MachineNew ==
    [state |-> "idle", current_batch_size |-> "none", time_remaining |-> 0,
     stored_output |-> 0, raw_material_consumed |-> 0,
     maintenance_active |-> FALSE, total_operator_time |-> 0]

\* mutant: reset forgets to clear stored_output
MutMachineReset(m) ==
    [state |-> "idle", current_batch_size |-> "none", time_remaining |-> 0,
     stored_output |-> m.stored_output, raw_material_consumed |-> 0,
     maintenance_active |-> FALSE, total_operator_time |-> 0]

\* Machine.reset
MachineReset(m) == MachineNew

\* Machine.is_idle
is_idle(m) == m.state = "idle"

\* Machine.retrieve_quantity: the quantity returned
RetrieveAmount(m, max_quantity) == Min(max_quantity, m.stored_output)

\* mutant: the quantity is returned but never taken off stored_output
MutRetrieveQuantity(m, max_quantity) == m

\* Machine.retrieve_quantity: the machine after the call
RetrieveQuantity(m, max_quantity) ==
    [m EXCEPT !.stored_output = m.stored_output - RetrieveAmount(m, max_quantity)]

\* Machine.request_maintenance
MaintenanceStarts(m) == m.state = "idle"

\* mutant: starting maintenance empties the machine's store
MutRequestMaintenanceEmpties(m) ==
    IF ~MaintenanceStarts(m) THEN m
    ELSE [m EXCEPT !.state = "maintenance",
                   !.time_remaining = maintenance_time,
                   !.stored_output = 0,
                   !.total_operator_time = m.total_operator_time + maintenance_operator_cost]

\* mutant: the improvement is switched on when maintenance starts
MutRequestMaintenance(m) ==
    IF ~MaintenanceStarts(m) THEN m
    ELSE [m EXCEPT !.state = "maintenance",
                   !.time_remaining = maintenance_time,
                   !.maintenance_active = TRUE,
                   !.total_operator_time = m.total_operator_time + maintenance_operator_cost]

RequestMaintenance(m) ==
    IF ~MaintenanceStarts(m) THEN m
    ELSE [m EXCEPT !.state = "maintenance",
                   !.time_remaining = maintenance_time,
                   !.total_operator_time = m.total_operator_time + maintenance_operator_cost]

\* mutant: a processing machine accepts a new batch
MutProcessingStartsNoSource(m) == m.state # "maintenance"

\* Machine.request_processing, machine without a source (M1)
ProcessingStartsNoSource(m) == m.state = "idle"

\* mutant: the raw material drawn is not counted
MutRequestProcessingUncounted(m, batch_size) ==
    IF ~ProcessingStartsNoSource(m) THEN m
    ELSE [m EXCEPT !.state = "processing",
                   !.current_batch_size = batch_size,
                   !.time_remaining = processing_times[batch_size]]

RequestProcessingNoSource(m, batch_size) ==
    IF ~ProcessingStartsNoSource(m) THEN m
    ELSE [m EXCEPT !.raw_material_consumed = m.raw_material_consumed + Quantity(batch_size),
                   !.state = "processing",
                   !.current_batch_size = batch_size,
                   !.time_remaining = processing_times[batch_size]]

\* Machine.request_processing, machine with a source (M2 with source M1):
\* the return value, the machine after the call and the source after the call
ProcessingStartsFromSource(m, src, batch_size) ==
    /\ m.state = "idle"
    /\ ~(RetrieveAmount(src, Quantity(batch_size)) < Quantity(batch_size))

RequestProcessingFromSource(m, src, batch_size) ==
    IF ~ProcessingStartsFromSource(m, src, batch_size) THEN m
    ELSE [m EXCEPT !.state = "processing",
                   !.current_batch_size = batch_size,
                   !.time_remaining = processing_times[batch_size]]

\* mutant: the source is drawn from before the idle check
MutSourceAfterRequest(m, src, batch_size) ==
    [src EXCEPT !.stored_output = src.stored_output - Min(Quantity(batch_size), src.stored_output)]

SourceAfterRequest(m, src, batch_size) ==
    IF m.state # "idle" THEN src
    ELSE RetrieveQuantity(src, Quantity(batch_size))

\* Machine.step: the outcome table of the batch that completes
Probabilities(m) ==
    IF m.maintenance_active THEN maintenance_effect[m.current_batch_size]
    ELSE success_probabilities[m.current_batch_size]

\* does this step complete a batch (so that an outcome is sampled)
Completes(m) == m.state = "processing" /\ m.time_remaining - 1 <= 0

\* random.choices(outcomes, weights): the outcomes of positive weight
Outcomes(m) ==
    IF Completes(m) THEN {o \in OutcomeNames : Probabilities(m)[o] > 0}
    ELSE {"none"}

\* mutant: a countdown ends one tick late
MutMachineStepLate(m, outcome) ==
    IF m.state = "processing" THEN
        IF m.time_remaining - 1 < 0
        THEN [m EXCEPT !.time_remaining = m.time_remaining - 1,
                       !.stored_output = m.stored_output + Quantity(outcome),
                       !.state = "idle",
                       !.current_batch_size = "none"]
        ELSE [m EXCEPT !.time_remaining = m.time_remaining - 1]
    ELSE IF m.state = "maintenance" THEN
        IF m.time_remaining - 1 < 0
        THEN [m EXCEPT !.time_remaining = m.time_remaining - 1,
                       !.maintenance_active = TRUE,
                       !.state = "idle"]
        ELSE [m EXCEPT !.time_remaining = m.time_remaining - 1]
    ELSE m

\* Machine.step with the sampled outcome
MachineStep(m, outcome) ==
    IF m.state = "processing" THEN
        IF m.time_remaining - 1 <= 0
        THEN [m EXCEPT !.time_remaining = m.time_remaining - 1,
                       !.stored_output = m.stored_output + Quantity(outcome),
                       !.state = "idle",
                       !.current_batch_size = "none"]
        ELSE [m EXCEPT !.time_remaining = m.time_remaining - 1]
    ELSE IF m.state = "maintenance" THEN
        IF m.time_remaining - 1 <= 0
        THEN [m EXCEPT !.time_remaining = m.time_remaining - 1,
                       !.maintenance_active = TRUE,
                       !.state = "idle"]
        ELSE [m EXCEPT !.time_remaining = m.time_remaining - 1]
    ELSE m

\* ----------------------------------------------------------------- Truck
\* Truck.__init__
TruckNew == [state |-> "available", current_load |-> 0, time_remaining |-> 0]

\* Truck.reset
TruckReset(t) == [t EXCEPT !.state = "available", !.current_load = 0, !.time_remaining = 0]

\* Truck.is_available
is_available(t) == t.state = "available"

\* Truck.request_shipment: the return value
ShipmentStarts(t, src, capacity) ==
    /\ t.state = "available"
    /\ ~(RetrieveAmount(src, capacity) <= 0)

\* Truck.request_shipment: the truck after the call
RequestShipment(t, src, capacity, time_to_deliver) ==
    IF ~ShipmentStarts(t, src, capacity) THEN t
    ELSE [t EXCEPT !.current_load = RetrieveAmount(src, capacity),
                   !.state = "delivering",
                   !.time_remaining = time_to_deliver]

\* mutant: the truck loads a copy and the source keeps its stock
MutSourceAfterShipment(t, src, capacity) == src

\* Truck.request_shipment: the source machine after the call
SourceAfterShipment(t, src, capacity) ==
    IF t.state # "available" THEN src
    ELSE RetrieveQuantity(src, capacity)

\* mutant: a completed delivery does not clear current_load
MutTruckStep(t, c) ==
    IF t.state = "delivering" THEN
        IF t.time_remaining - 1 <= 0 THEN
            IF QuantityShippedOk(c, t.current_load)
            THEN [t EXCEPT !.time_remaining = t.time_remaining - 1,
                           !.state = "available"]
            ELSE [t EXCEPT !.time_remaining = t.time_remaining - 1]
        ELSE [t EXCEPT !.time_remaining = t.time_remaining - 1]
    ELSE t

\* Truck.step: the truck after the call; when the client raises, the
\* exception leaves the truck delivering with its load
TruckStep(t, c) ==
    IF t.state = "delivering" THEN
        IF t.time_remaining - 1 <= 0 THEN
            IF QuantityShippedOk(c, t.current_load)
            THEN [t EXCEPT !.time_remaining = t.time_remaining - 1,
                           !.state = "available",
                           !.current_load = 0]
            ELSE [t EXCEPT !.time_remaining = t.time_remaining - 1]
        ELSE [t EXCEPT !.time_remaining = t.time_remaining - 1]
    ELSE t

\* Truck.step: the client after the call
ClientAfterTruckStep(t, c) ==
    IF t.state = "delivering" /\ t.time_remaining - 1 <= 0
    THEN ClientQuantityShipped(c, t.current_load)
    ELSE c

\* mutant: the value is rounded to the nearest sixth instead of the lower one
MutQuantizeNearest(num, den) == (Max(0, Min(den, num)) * 12 + den) \div (2 * den)

\* ---------------------------------------------------------------- System
\* System.get_state.quantize for a value num/den: clamp to [0,1], then
\* int(value * 6); the result is in sixths
quantize(num, den) == (Max(0, Min(den, num)) * 6) \div den

\* mutant: the penalty is shown as started already at the deadline
MutTimeToPenalty(c) ==
    IF c.state \in {"order_placed", "wait_for_completion"}
    THEN IF c.time_passed >= time_limit(c) THEN -1
         ELSE Max(0, time_limit(c) - c.time_passed)
    ELSE -1

\* System.get_state: time_to_penalty
TimeToPenalty(c) ==
    IF c.state \in {"order_placed", "wait_for_completion"}
    THEN IF c.time_passed > time_limit(c) THEN -1
         ELSE Max(0, time_limit(c) - c.time_passed)
    ELSE -1

\* System.get_state: a machine's status tag and ticks remaining
MachineStatus(m) ==
    IF m.state = "processing"
    THEN CASE m.current_batch_size = "full" -> "processing_full"
           [] m.current_batch_size = "half" -> "processing_half"
           [] m.current_batch_size = "third" -> "processing_third"
           [] OTHER -> "processing_None"
    ELSE m.state

MachineToCompletion(m) == IF m.state = "processing" THEN m.time_remaining ELSE 0

\* System.get_state: the small truck's status tag
SmallTruckStatus(t) ==
    IF t.state = "delivering"
    THEN IF t.current_load = 0 THEN "shipping_zero" ELSE "shipping_third"
    ELSE "idle"

\* System.get_state: the big truck's status tag
BigTruckStatus(t) ==
    IF t.state = "delivering"
    THEN LET load == quantize(t.current_load, Den)
         IN IF load = 0 THEN "shipping_zero"
            ELSE IF load <= Third THEN "shipping_third"
            ELSE IF load <= 2 * Third THEN "shipping_half"
            ELSE "shipping_full"
    ELSE "idle"

TruckToCompletion(t) == IF t.state = "delivering" THEN t.time_remaining ELSE 0

\* System.get_state: the 13-field observation of the entities c, a, b, s, t
GetState(c, a, b, s, t) ==
    [client_current_priority |-> c.current_priority,
     quantity_shipped_to_the_client |-> quantize(c.order_quantity, Den),
     time_to_penalty |-> TimeToPenalty(c),
     m1_status |-> MachineStatus(a),
     m1_stored |-> quantize(a.stored_output, Den),
     m1_to_completion |-> MachineToCompletion(a),
     m2_status |-> MachineStatus(b),
     m2_stored |-> quantize(b.stored_output, Den),
     m2_to_completion |-> MachineToCompletion(b),
     ts_status |-> SmallTruckStatus(s),
     ts_to_completion |-> TruckToCompletion(s),
     tb_status |-> BigTruckStatus(t),
     tb_to_completion |-> TruckToCompletion(t)]

\* the observation of the current state, and of the state before the last call
Obs == GetState(client, m1, m2, small_truck, big_truck)
PreObs == GetState(pre.client, pre.m1, pre.m2, pre.small_truck, pre.big_truck)

\* what a call returned: an observation, or the terminal string
\* "Completed <in_time> <priority>" of enact_strategy
Returned(c, a, b, s, t) ==
    [terminal |-> FALSE, in_time |-> FALSE, priority |-> "none",
     obs |-> GetState(c, a, b, s, t), raised |-> FALSE]

\* System.m1_processing_third / _half / _full
m1_processing(batch_size) ==
    /\ m1' = RequestProcessingNoSource(m1, batch_size)
    /\ UNCHANGED <<client, m2, small_truck, big_truck>>

\* System.m1_maintenance
m1_maintenance ==
    /\ m1' = RequestMaintenance(m1)
    /\ UNCHANGED <<client, m2, small_truck, big_truck>>

\* System.m2_processing_third / _half / _full
m2_processing(batch_size) ==
    /\ m2' = RequestProcessingFromSource(m2, m1, batch_size)
    /\ m1' = SourceAfterRequest(m2, m1, batch_size)
    /\ UNCHANGED <<client, small_truck, big_truck>>

\* System.m2_maintenance
m2_maintenance ==
    /\ m2' = RequestMaintenance(m2)
    /\ UNCHANGED <<client, m1, small_truck, big_truck>>

\* System.small_truck_shipment
small_truck_shipment ==
    /\ small_truck' = RequestShipment(small_truck, m2, SmallCapacity, SmallTimeToDeliver)
    /\ m2' = SourceAfterShipment(small_truck, m2, SmallCapacity)
    /\ UNCHANGED <<client, m1, big_truck>>

\* System.big_truck_shipment
big_truck_shipment ==
    /\ big_truck' = RequestShipment(big_truck, m2, BigCapacity, BigTimeToDeliver)
    /\ m2' = SourceAfterShipment(big_truck, m2, BigCapacity)
    /\ UNCHANGED <<client, m1, small_truck>>

\* mutant: an exception from a truck's step ends the tick
MutStepStopsAtError(o1, o2) ==
    LET c1 == ClientAfterTruckStep(small_truck, client)
        c2 == ClientAfterTruckStep(big_truck, c1)
        smallRaises == /\ small_truck.state = "delivering"
                       /\ small_truck.time_remaining - 1 <= 0
                       /\ ~QuantityShippedOk(client, small_truck.current_load)
        bigRaises == /\ big_truck.state = "delivering"
                     /\ big_truck.time_remaining - 1 <= 0
                     /\ ~QuantityShippedOk(c1, big_truck.current_load)
    IN /\ m1' = MachineStep(m1, o1)
       /\ m2' = MachineStep(m2, o2)
       /\ small_truck' = TruckStep(small_truck, client)
       /\ big_truck' = IF smallRaises THEN big_truck ELSE TruckStep(big_truck, c1)
       /\ client' = IF smallRaises \/ bigRaises THEN c2 ELSE ClientStepTime(c2)

\* mutant: the client's clock is advanced before the trucks are stepped
MutStepClientFirst(o1, o2) ==
    LET c0 == ClientStepTime(client)
        c1 == ClientAfterTruckStep(small_truck, c0)
        c2 == ClientAfterTruckStep(big_truck, c1)
    IN /\ m1' = MachineStep(m1, o1)
       /\ m2' = MachineStep(m2, o2)
       /\ small_truck' = TruckStep(small_truck, c0)
       /\ big_truck' = TruckStep(big_truck, c1)
       /\ client' = c2

\* System.step with the outcomes sampled for M1 and M2: the machines in the
\* order of self.machines, the trucks in the order of self.trucks, the client
step(o1, o2) ==
    LET c1 == ClientAfterTruckStep(small_truck, client)
        c2 == ClientAfterTruckStep(big_truck, c1)
    IN /\ m1' = MachineStep(m1, o1)
       /\ m2' = MachineStep(m2, o2)
       /\ small_truck' = TruckStep(small_truck, client)
       /\ big_truck' = TruckStep(big_truck, c1)
       /\ client' = ClientStepTime(c2)

\* System.reset with the priority sampled by place_order
reset(p) ==
    /\ client' = ClientPlaceOrder(ClientReset(client), p)
    /\ m1' = RequestProcessingNoSource(MachineReset(m1), "full")
    /\ m2' = MachineReset(m2)
    /\ small_truck' = TruckReset(small_truck)
    /\ big_truck' = TruckReset(big_truck)

\* mutant: the constructor places the order but does not start M1
MutInit ==
    /\ \E p \in Priorities : client = ClientPlaceOrder(ClientNew, p)
    /\ m1 = MachineNew
    /\ m2 = MachineNew
    /\ small_truck = TruckNew
    /\ big_truck = TruckNew
    /\ command = "__init__"
    /\ started = TRUE
    /\ pre = [client |-> ClientNew, m1 |-> MachineNew, m2 |-> MachineNew,
              small_truck |-> TruckNew, big_truck |-> TruckNew]
    /\ returned = Returned(ClientNew, MachineNew, MachineNew, TruckNew, TruckNew)
    /\ noneCount = 0

\* System.__init__ with the priority sampled by place_order; the constructor
\* returns no observation, the record starts with that of the new entities
Init ==
    /\ \E p \in Priorities : client = ClientPlaceOrder(ClientNew, p)
    /\ m1 = RequestProcessingNoSource(MachineNew, "full")
    /\ m2 = MachineNew
    /\ small_truck = TruckNew
    /\ big_truck = TruckNew
    /\ command = "__init__"
    /\ started = TRUE
    /\ pre = [client |-> ClientNew, m1 |-> MachineNew, m2 |-> MachineNew,
              small_truck |-> TruckNew, big_truck |-> TruckNew]
    /\ returned = Returned(ClientNew, MachineNew, MachineNew, TruckNew, TruckNew)
    /\ noneCount = 0

\* --------------------------------------------------- calls, with bookkeeping
\* the bookkeeping of a call: which method, what the entity request returned,
\* the entities before the call, the value returned
Called(name, ok) ==
    /\ command' = name
    /\ started' = ok
    /\ pre' = Snapshot
    /\ returned' = Returned(client', m1', m2', small_truck', big_truck')

\* the "none" outcomes a call samples
NonesSampled(action_str, o1, o2) ==
    IF action_str = "step"
    THEN (IF Completes(m1) /\ o1 = "none" THEN 1 ELSE 0)
         + (IF Completes(m2) /\ o2 = "none" THEN 1 ELSE 0)
    ELSE 0

\* the bounds on the calls
RawWithinBound(batch_size) ==
    is_idle(m1) => m1.raw_material_consumed + Quantity(batch_size) <= MaxRaw

OperatorTimeWithinBound(m) ==
    is_idle(m) => m.total_operator_time < MaxOperatorTime

StepWithinBound(horizon) ==
    /\ client.state \in {"order_placed", "wait_for_completion"} => client.time_passed < horizon
    /\ ~is_available(small_truck) => small_truck.time_remaining > -MaxOverdue
    /\ ~is_available(big_truck) => big_truck.time_remaining > -MaxOverdue

M1Processing ==
    \E b \in BatchSizes :
        /\ RawWithinBound(b)
        /\ m1_processing(b)
        /\ Called("m1_processing_" \o b, ProcessingStartsNoSource(m1))
        /\ UNCHANGED noneCount

M1Maintenance ==
    /\ OperatorTimeWithinBound(m1)
    /\ m1_maintenance
    /\ Called("m1_maintenance", MaintenanceStarts(m1))
    /\ UNCHANGED noneCount

M2Processing ==
    \E b \in BatchSizes :
        /\ m2_processing(b)
        /\ Called("m2_processing_" \o b, ProcessingStartsFromSource(m2, m1, b))
        /\ UNCHANGED noneCount

M2Maintenance ==
    /\ OperatorTimeWithinBound(m2)
    /\ m2_maintenance
    /\ Called("m2_maintenance", MaintenanceStarts(m2))
    /\ UNCHANGED noneCount

SmallTruckShipment ==
    /\ small_truck_shipment
    /\ Called("small_truck_shipment", ShipmentStarts(small_truck, m2, SmallCapacity))
    /\ UNCHANGED noneCount

BigTruckShipment ==
    /\ big_truck_shipment
    /\ Called("big_truck_shipment", ShipmentStarts(big_truck, m2, BigCapacity))
    /\ UNCHANGED noneCount

Step ==
    /\ StepWithinBound(MaxTime)
    /\ \E o1 \in Outcomes(m1), o2 \in Outcomes(m2) :
          /\ step(o1, o2)
          /\ noneCount' = noneCount + NonesSampled("step", o1, o2)
    /\ Called("step", TRUE)

Reset ==
    /\ \E p \in Priorities : reset(p)
    /\ Called("reset", TRUE)
    /\ noneCount' = 0

\* any sequence of alphabet commands and resets
Next ==
    \/ M1Processing
    \/ M1Maintenance
    \/ M2Processing
    \/ M2Maintenance
    \/ SmallTruckShipment
    \/ BigTruckShipment
    \/ Step
    \/ Reset

Spec == Init /\ [][Next]_vars

\* ------------------------- calls over a long horizon, without the call record
NoBookkeeping == UNCHANGED <<command, started, pre, returned, noneCount>>

\* The priority decides only time_limit and the payment rates.  Over the long
\* horizon no time_limit is exceeded (MaxLongTime <= 10), so the priority plays
\* no part in how quantities move; these runs sample this one, the one with
\* the earliest deadline.
LongPriority == "high"

InitLong == Init /\ client.current_priority = LongPriority

LongM1Processing ==
    \E b \in BatchSizes : RawWithinBound(b) /\ m1_processing(b) /\ NoBookkeeping
LongM1Maintenance == OperatorTimeWithinBound(m1) /\ m1_maintenance /\ NoBookkeeping
LongM2Processing == \E b \in BatchSizes : m2_processing(b) /\ NoBookkeeping
LongM2Maintenance == OperatorTimeWithinBound(m2) /\ m2_maintenance /\ NoBookkeeping
LongSmallTruckShipment == small_truck_shipment /\ NoBookkeeping
LongBigTruckShipment == big_truck_shipment /\ NoBookkeeping
LongStep ==
    /\ StepWithinBound(MaxLongTime)
    /\ \E o1 \in Outcomes(m1), o2 \in Outcomes(m2) : step(o1, o2)
    /\ NoBookkeeping
LongReset == reset(LongPriority) /\ NoBookkeeping

NextLong ==
    \/ LongM1Processing
    \/ LongM1Maintenance
    \/ LongM2Processing
    \/ LongM2Maintenance
    \/ LongSmallTruckShipment
    \/ LongBigTruckShipment
    \/ LongStep
    \/ LongReset

SpecLong == InitLong /\ [][NextLong]_vars

\* ------------------ calls that start late, so that deliveries meet the deadline
\* LateStep issues step() only while an active order's time_passed is < MaxLateTime.
MaxLateTime == 12
\* every other call is issued only once the order's time_passed is >= LateStart.
LateStart == 6

StartedLate == client.time_passed >= LateStart

LateM1Processing ==
    \E b \in BatchSizes : StartedLate /\ RawWithinBound(b) /\ m1_processing(b) /\ NoBookkeeping
LateM1Maintenance == StartedLate /\ OperatorTimeWithinBound(m1) /\ m1_maintenance /\ NoBookkeeping
LateM2Processing == \E b \in BatchSizes : StartedLate /\ m2_processing(b) /\ NoBookkeeping
LateM2Maintenance == StartedLate /\ OperatorTimeWithinBound(m2) /\ m2_maintenance /\ NoBookkeeping
LateSmallTruckShipment == StartedLate /\ small_truck_shipment /\ NoBookkeeping
LateBigTruckShipment == StartedLate /\ big_truck_shipment /\ NoBookkeeping
LateStep ==
    /\ StepWithinBound(MaxLateTime)
    /\ \E o1 \in Outcomes(m1), o2 \in Outcomes(m2) : step(o1, o2)
    /\ NoBookkeeping
LateReset == StartedLate /\ reset(LongPriority) /\ NoBookkeeping

NextLate ==
    \/ LateM1Processing
    \/ LateM1Maintenance
    \/ LateM2Processing
    \/ LateM2Maintenance
    \/ LateSmallTruckShipment
    \/ LateBigTruckShipment
    \/ LateStep
    \/ LateReset

SpecLate == InitLong /\ [][NextLate]_vars

\* ---------------------------------------------------------- the strategy
AlphabetCommands ==
    {"m1_processing_third", "m1_processing_half", "m1_processing_full", "m1_maintenance",
     "m2_processing_third", "m2_processing_half", "m2_processing_full", "m2_maintenance",
     "small_truck_shipment", "big_truck_shipment", "step"}

\* System.alphabet: the list it returns
alphabet ==
    <<"m1_processing_third", "m1_processing_half", "m1_processing_full", "m1_maintenance",
      "m2_processing_third", "m2_processing_half", "m2_processing_full", "m2_maintenance",
      "small_truck_shipment", "big_truck_shipment", "step">>

\* System.action: the keys of action_methods
action_methods == AlphabetCommands \cup {"reset"}

\* mutant: two entries of action_methods are crossed
MutActionCrossed(action_str, o1, o2, p) ==
    CASE action_str = "m1_processing_third" -> m1_processing("third")
      [] action_str = "m1_processing_half" -> m1_processing("half")
      [] action_str = "m1_processing_full" -> m1_processing("full")
      [] action_str = "m1_maintenance" -> m1_maintenance
      [] action_str = "m2_processing_third" -> m2_processing("third")
      [] action_str = "m2_processing_half" -> m2_processing("half")
      [] action_str = "m2_processing_full" -> m2_processing("full")
      [] action_str = "m2_maintenance" -> m2_maintenance
      [] action_str = "small_truck_shipment" -> big_truck_shipment
      [] action_str = "big_truck_shipment" -> small_truck_shipment
      [] action_str = "step" -> step(o1, o2)
      [] action_str = "reset" -> reset(p)
      [] OTHER -> UNCHANGED <<client, m1, m2, small_truck, big_truck>>

\* System.action: the dispatch on the command name (o1, o2: the outcomes a
\* step samples, p: the priority a reset samples); a name that is not a key
\* raises ValueError before anything is called
action(action_str, o1, o2, p) ==
    CASE action_str = "m1_processing_third" -> m1_processing("third")
      [] action_str = "m1_processing_half" -> m1_processing("half")
      [] action_str = "m1_processing_full" -> m1_processing("full")
      [] action_str = "m1_maintenance" -> m1_maintenance
      [] action_str = "m2_processing_third" -> m2_processing("third")
      [] action_str = "m2_processing_half" -> m2_processing("half")
      [] action_str = "m2_processing_full" -> m2_processing("full")
      [] action_str = "m2_maintenance" -> m2_maintenance
      [] action_str = "small_truck_shipment" -> small_truck_shipment
      [] action_str = "big_truck_shipment" -> big_truck_shipment
      [] action_str = "step" -> step(o1, o2)
      [] action_str = "reset" -> reset(p)
      [] OTHER -> UNCHANGED <<client, m1, m2, small_truck, big_truck>>

\* what the entity request behind a command returns in the current state
Starts(action_str) ==
    CASE action_str = "m1_processing_third" -> ProcessingStartsNoSource(m1)
      [] action_str = "m1_processing_half" -> ProcessingStartsNoSource(m1)
      [] action_str = "m1_processing_full" -> ProcessingStartsNoSource(m1)
      [] action_str = "m1_maintenance" -> MaintenanceStarts(m1)
      [] action_str = "m2_processing_third" -> ProcessingStartsFromSource(m2, m1, "third")
      [] action_str = "m2_processing_half" -> ProcessingStartsFromSource(m2, m1, "half")
      [] action_str = "m2_processing_full" -> ProcessingStartsFromSource(m2, m1, "full")
      [] action_str = "m2_maintenance" -> MaintenanceStarts(m2)
      [] action_str = "small_truck_shipment" -> ShipmentStarts(small_truck, m2, SmallCapacity)
      [] action_str = "big_truck_shipment" -> ShipmentStarts(big_truck, m2, BigCapacity)
      [] OTHER -> TRUE

\* mutant: the terminal check is never taken
MutStrategyTerminal(c) == c.state = "completed" /\ c.order_quantity > Full

\* System.enact_strategy: the terminal check
StrategyTerminal(c) == c.state = "completed" /\ c.order_quantity >= Full

\* mutant: rule 1 ignores that M2 is under maintenance
MutStrategyCommandRule1(c, a, b, s, t) ==
    IF ~b.maintenance_active THEN "m2_maintenance"
    ELSE IF b.state = "idle" /\ a.stored_output > 0 /\ c.order_quantity < Full
         THEN "m2_processing_third"
    ELSE IF a.state = "idle" /\ ~(a.maintenance_active \/ a.state = "maintenance")
            /\ c.order_quantity < Full
         THEN "m1_maintenance"
    ELSE IF a.state = "idle" /\ c.order_quantity < Full THEN "m1_processing_full"
    ELSE IF s.state = "available" /\ b.stored_output > 0 THEN "small_truck_shipment"
    ELSE IF s.state = "available" /\ t.state = "available" /\ b.stored_output > 0
         THEN "big_truck_shipment"
    ELSE "step"

\* mutant: rule 2 does not look at M1's stored output
MutStrategyCommandRule2(c, a, b, s, t) ==
    IF ~(b.maintenance_active \/ b.state = "maintenance") THEN "m2_maintenance"
    ELSE IF b.state = "idle" /\ c.order_quantity < Full THEN "m2_processing_third"
    ELSE IF a.state = "idle" /\ ~(a.maintenance_active \/ a.state = "maintenance")
            /\ c.order_quantity < Full
         THEN "m1_maintenance"
    ELSE IF a.state = "idle" /\ c.order_quantity < Full THEN "m1_processing_full"
    ELSE IF s.state = "available" /\ b.stored_output > 0 THEN "small_truck_shipment"
    ELSE IF s.state = "available" /\ t.state = "available" /\ b.stored_output > 0
         THEN "big_truck_shipment"
    ELSE "step"

\* mutant: the M1 rules are tried before the M2 processing rule
MutStrategyCommandOrder(c, a, b, s, t) ==
    IF ~(b.maintenance_active \/ b.state = "maintenance") THEN "m2_maintenance"
    ELSE IF a.state = "idle" /\ ~(a.maintenance_active \/ a.state = "maintenance")
            /\ c.order_quantity < Full
         THEN "m1_maintenance"
    ELSE IF a.state = "idle" /\ c.order_quantity < Full THEN "m1_processing_full"
    ELSE IF b.state = "idle" /\ a.stored_output > 0 /\ c.order_quantity < Full
         THEN "m2_processing_third"
    ELSE IF s.state = "available" /\ b.stored_output > 0 THEN "small_truck_shipment"
    ELSE IF s.state = "available" /\ t.state = "available" /\ b.stored_output > 0
         THEN "big_truck_shipment"
    ELSE "step"

\* mutant: M1's processing rule is tried before its maintenance rule
MutStrategyCommandM1Order(c, a, b, s, t) ==
    IF ~(b.maintenance_active \/ b.state = "maintenance") THEN "m2_maintenance"
    ELSE IF b.state = "idle" /\ a.stored_output > 0 /\ c.order_quantity < Full
         THEN "m2_processing_third"
    ELSE IF a.state = "idle" /\ c.order_quantity < Full THEN "m1_processing_full"
    ELSE IF a.state = "idle" /\ ~(a.maintenance_active \/ a.state = "maintenance")
            /\ c.order_quantity < Full
         THEN "m1_maintenance"
    ELSE IF s.state = "available" /\ b.stored_output > 0 THEN "small_truck_shipment"
    ELSE IF s.state = "available" /\ t.state = "available" /\ b.stored_output > 0
         THEN "big_truck_shipment"
    ELSE "step"

\* mutant: rule 2 has M2 process half batches
MutStrategyCommandHalf(c, a, b, s, t) ==
    IF ~(b.maintenance_active \/ b.state = "maintenance") THEN "m2_maintenance"
    ELSE IF b.state = "idle" /\ a.stored_output > 0 /\ c.order_quantity < Full
         THEN "m2_processing_half"
    ELSE IF a.state = "idle" /\ ~(a.maintenance_active \/ a.state = "maintenance")
            /\ c.order_quantity < Full
         THEN "m1_maintenance"
    ELSE IF a.state = "idle" /\ c.order_quantity < Full THEN "m1_processing_full"
    ELSE IF s.state = "available" /\ b.stored_output > 0 THEN "small_truck_shipment"
    ELSE IF s.state = "available" /\ t.state = "available" /\ b.stored_output > 0
         THEN "big_truck_shipment"
    ELSE "step"

\* System.enact_strategy: the command chosen for the entities c, a, b, s, t
StrategyCommand(c, a, b, s, t) ==
    LET m1_running == a.state # "idle"
        m2_running == b.state # "idle"
        ts_running == s.state # "available"
        tb_running == t.state # "available"
        m1_maintenance_active == a.maintenance_active \/ a.state = "maintenance"
        m2_maintenance_active == b.maintenance_active \/ b.state = "maintenance"
        client_quantity == c.order_quantity
    IN IF ~m2_maintenance_active THEN "m2_maintenance"
       ELSE IF ~m2_running /\ a.stored_output > 0 /\ client_quantity < Full
            THEN "m2_processing_third"
       ELSE IF ~m1_running /\ ~m1_maintenance_active /\ client_quantity < Full
            THEN "m1_maintenance"
       ELSE IF ~m1_running /\ client_quantity < Full THEN "m1_processing_full"
       ELSE IF ~ts_running /\ b.stored_output > 0 THEN "small_truck_shipment"
       ELSE IF ~ts_running /\ ~tb_running /\ b.stored_output > 0 THEN "big_truck_shipment"
       ELSE "step"

\* the command the strategy chooses in the current state
Chosen == StrategyCommand(client, m1, m2, small_truck, big_truck)

\* System.enact_strategy: the flag of the terminal string
CompletedInTime(c) == c.time_passed <= time_limit(c)

\* Python's `sub in status` for the state names and tags the System uses
StatusContains(status, sub) == status = "processing_" \o sub

\* System.enact_strategy: processing_m2_amount, computed from
\* m2_status = self.m2.state before the command is executed
processing_m2_amount(m2_status) ==
    IF m2_status \in {"processing", "processing_full", "processing_half", "processing_third"}
    THEN IF StatusContains(m2_status, "full") THEN Full
         ELSE IF StatusContains(m2_status, "half") THEN Half
         ELSE IF StatusContains(m2_status, "third") THEN Third
         ELSE 0
    ELSE 0

\* System.enact_strategy: shipped_m2_amount, before the command
shipped_m2_amount(s, t) ==
    (IF s.state # "available" THEN s.current_load ELSE 0)
    + (IF t.state # "available" THEN t.current_load ELSE 0)

\* System.enact_strategy: total_material, before the command
total_material(c, a, b, s, t) ==
    a.stored_output + processing_m2_amount(b.state) + b.stored_output
    + shipped_m2_amount(s, t) + c.order_quantity

\* System.enact_strategy: the running and maintenance-active booleans of the
\* extended observation, computed from the entities before the command
running_flags(a, b, s, t) ==
    [m1_running |-> a.state # "idle",
     m2_running |-> b.state # "idle",
     ts_running |-> s.state # "available",
     tb_running |-> t.state # "available",
     m1_maintenance_active |-> a.maintenance_active \/ a.state = "maintenance",
     m2_maintenance_active |-> b.maintenance_active \/ b.state = "maintenance"]

\* Client.place_order samples a priority in reset alone
PrioritySamples(action_str) == IF action_str = "reset" THEN Priorities ELSE {"none"}

\* System.enact_strategy: the terminal string, or one command
EnactStrategy ==
    IF StrategyTerminal(client)
    THEN /\ UNCHANGED <<client, m1, m2, small_truck, big_truck, noneCount>>
         /\ command' = "none"
         /\ started' = FALSE
         /\ pre' = Snapshot
         /\ returned' = [terminal |-> TRUE,
                         in_time |-> client.time_passed <= time_limit(client),
                         priority |-> client.current_priority,
                         obs |-> Obs, raised |-> FALSE]
    ELSE \E o1 \in Outcomes(m1), o2 \in Outcomes(m2), p \in PrioritySamples(Chosen) :
            /\ noneCount + NonesSampled(Chosen, o1, o2) <= MaxNone
            /\ action(Chosen, o1, o2, p)
            /\ Called(Chosen, Starts(Chosen))
            /\ noneCount' = noneCount + NonesSampled(Chosen, o1, o2)

\* a fresh System driven by enact_strategy calls alone
SpecStrategy == Init /\ [][EnactStrategy]_vars

\* the caller keeps calling enact_strategy
SpecStrategyFair == SpecStrategy /\ WF_vars(EnactStrategy)

\* ------------------------------------------ commands issued through action
\* names that are not keys of action_methods
UnknownNames == {"", "Step", "m3_maintenance", "enact_strategy"}

\* the bounds on a call made by name
NamedCallWithinBound(action_str) ==
    /\ action_str = "m1_processing_third" => RawWithinBound("third")
    /\ action_str = "m1_processing_half" => RawWithinBound("half")
    /\ action_str = "m1_processing_full" => RawWithinBound("full")
    /\ action_str = "m1_maintenance" => OperatorTimeWithinBound(m1)
    /\ action_str = "m2_maintenance" => OperatorTimeWithinBound(m2)
    /\ action_str = "step" => StepWithinBound(MaxTime)

\* random.choices is called in a step alone
OutcomeSamples(action_str, m) == IF action_str = "step" THEN Outcomes(m) ELSE {"none"}

\* a call of System.action(action_str): the command's return value, or the
\* ValueError of an unknown name
ActionCall(action_str) ==
    /\ NamedCallWithinBound(action_str)
    /\ \E o1 \in OutcomeSamples(action_str, m1), o2 \in OutcomeSamples(action_str, m2),
          p \in PrioritySamples(action_str) :
             action(action_str, o1, o2, p)
    /\ IF action_str \in action_methods
       THEN Called(action_str, Starts(action_str))
       ELSE /\ command' = action_str
            /\ started' = FALSE
            /\ pre' = Snapshot
            /\ returned' = [terminal |-> FALSE, in_time |-> FALSE, priority |-> "none",
                            obs |-> Obs, raised |-> TRUE]
    /\ UNCHANGED noneCount

NextAction == \E action_str \in action_methods \cup UnknownNames : ActionCall(action_str)

\* a fresh System driven through action alone
SpecAction == Init /\ [][NextAction]_vars

\* ------------------------------------------------- quantize on its own
MaxDen == 12
Overshoot == 2

\* two values num/den of one denominator, from below 0 to above 1
QuantizeInputs ==
    [den : 1..MaxDen, value1 : -Overshoot..(MaxDen + Overshoot),
     value2 : -Overshoot..(MaxDen + Overshoot)]

\* nothing has been quantized yet
InitQuantize ==
    /\ client = ClientNew
    /\ m1 = MachineNew
    /\ m2 = MachineNew
    /\ small_truck = TruckNew
    /\ big_truck = TruckNew
    /\ command = "quantize"
    /\ started = FALSE
    /\ pre \in {i \in QuantizeInputs : i.value1 <= i.den + Overshoot /\ i.value2 <= i.den + Overshoot}
    /\ returned = <<>>
    /\ noneCount = 0

\* quantize applied to both values; the results are in sixths
ApplyQuantize ==
    /\ command = "quantize"
    /\ ~started
    /\ started' = TRUE
    /\ returned' = [value1 |-> quantize(pre.value1, pre.den),
                    value2 |-> quantize(pre.value2, pre.den)]
    /\ UNCHANGED <<client, m1, m2, small_truck, big_truck, command, pre, noneCount>>

SpecQuantize == InitQuantize /\ [][ApplyQuantize]_vars

\* --------------------------------------------------- the Client on its own
MaxClientTime == 2
MaxShipped == 7

\* the quantities offered to quantity_shipped, in sixths: from below 0 to
\* above a whole order
ShippedQuantities == -1..MaxShipped

\* a call on the Client: the receiver before the call, the argument, and
\* whether the call returned (started) or raised
ClientCalled(name, quantity, ok) ==
    /\ command' = name
    /\ started' = ok
    /\ pre' = [client |-> client, quantity |-> quantity]
    /\ returned' = [Returned(client', m1, m2, small_truck, big_truck) EXCEPT !.raised = ~ok]
    /\ UNCHANGED <<m1, m2, small_truck, big_truck, noneCount>>

\* Client.__init__
InitClient ==
    /\ client = ClientNew
    /\ m1 = MachineNew
    /\ m2 = MachineNew
    /\ small_truck = TruckNew
    /\ big_truck = TruckNew
    /\ command = "__init__"
    /\ started = TRUE
    /\ pre = [client |-> ClientNew, quantity |-> 0]
    /\ returned = Returned(ClientNew, MachineNew, MachineNew, TruckNew, TruckNew)
    /\ noneCount = 0

ClientPlaceOrderCall ==
    \E p \in Priorities :
        /\ client' = ClientPlaceOrder(client, p)
        /\ ClientCalled("place_order", 0, PlaceOrderOk(client))

ClientQuantityShippedCall ==
    \E quantity \in ShippedQuantities :
        /\ client' = ClientQuantityShipped(client, quantity)
        /\ ClientCalled("quantity_shipped", quantity, QuantityShippedOk(client, quantity))

ClientStepTimeCall ==
    /\ client.time_passed < MaxClientTime
    /\ client' = ClientStepTime(client)
    /\ ClientCalled("step_time", 0, TRUE)

ClientResetCall ==
    /\ client' = ClientReset(client)
    /\ ClientCalled("reset", 0, TRUE)

NextClient ==
    \/ ClientPlaceOrderCall
    \/ ClientQuantityShippedCall
    \/ ClientStepTimeCall
    \/ ClientResetCall

\* a Client driven by any sequence of calls of its methods
SpecClient == InitClient /\ [][NextClient]_vars

\* ================================================================ claims
M1Commands == {"m1_processing_third", "m1_processing_half", "m1_processing_full", "m1_maintenance"}
M2ProcessingCommands == {"m2_processing_third", "m2_processing_half", "m2_processing_full"}
M2Commands == M2ProcessingCommands \cup {"m2_maintenance"}

\* the raw material a processing command needs
Need(name) ==
    CASE name \in {"m1_processing_full", "m2_processing_full"} -> Full
      [] name \in {"m1_processing_half", "m2_processing_half"} -> Half
      [] name \in {"m1_processing_third", "m2_processing_third"} -> Third
      [] OTHER -> 0

\* the last call left every entity and the observation as they were
NothingChanged == Snapshot = pre /\ Obs = PreObs /\ returned.obs = PreObs

\* C1: an M2 processing request of any batch size issued while M2 is idle and
\* M1.stored_output is smaller than the batch's need fails with no state
\* change: M2 stays idle, M1.stored_output is what it was, and the
\* observation returned equals the observation before the call.
C1_ShortM2RequestChangesNothing ==
    (/\ command \in M2ProcessingCommands
     /\ is_idle(pre.m2)
     /\ pre.m1.stored_output < Need(command))
    => (~started /\ NothingChanged)

\* C2: a per-entity command whose request cannot start because the target
\* entity is busy (machine not idle, truck not available) or, for a truck
\* shipment, because M2.stored_output = 0, changes nothing: the observation
\* returned equals the one before the call and no entity variable changes.
Blocked ==
    \/ command \in M1Commands /\ ~is_idle(pre.m1)
    \/ command \in M2Commands /\ ~is_idle(pre.m2)
    \/ command = "small_truck_shipment"
         /\ (~is_available(pre.small_truck) \/ pre.m2.stored_output = 0)
    \/ command = "big_truck_shipment"
         /\ (~is_available(pre.big_truck) \/ pre.m2.stored_output = 0)

C2_BlockedCommandChangesNothing == Blocked => (~started /\ NothingChanged)

\* C2 witness: an M2 processing command was issued while M2 was busy and M1
\* held enough material for it.
C2_Witness ==
    /\ command \in M2ProcessingCommands
    /\ ~is_idle(pre.m2)
    /\ pre.m1.stored_output >= Need(command)
    /\ ~started

\* a step() call, whatever outcomes it samples
StepTaken == \E o1 \in Outcomes(m1), o2 \in Outcomes(m2) : step(o1, o2)

\* a reset() call
ResetTaken == \E p \in Priorities : reset(p)

\* the truck's countdown reaches zero in the next step
Due(t) == t.state = "delivering" /\ t.time_remaining = 1

\* the next step leaves a delivering truck on its way, one tick closer
CountsDown(t, tn) ==
    (t.state = "delivering" /\ t.time_remaining > 1)
    => (tn.state = "delivering" /\ tn.time_remaining = t.time_remaining - 1
        /\ tn.current_load = t.current_load)

\* the next step ends the truck's cycle
CycleEnds(t, tn) == Due(t) => (tn.state = "available" /\ tn.current_load = 0)

\* C3: every truck whose shipment request succeeded completes its cycle:
\* it starts with time_to_deliver ticks (2 small, 3 big), each step() takes
\* one tick off, and the step that takes the last one adds its load to the
\* client's order_quantity, clears current_load and makes it available.
C3_TruckCompletesCycle ==
    [][/\ (is_available(small_truck) /\ ~is_available(small_truck'))
            => small_truck'.time_remaining = SmallTimeToDeliver
       /\ (is_available(big_truck) /\ ~is_available(big_truck'))
            => big_truck'.time_remaining = BigTimeToDeliver
       /\ StepTaken =>
            /\ CountsDown(small_truck, small_truck')
            /\ CountsDown(big_truck, big_truck')
            /\ CycleEnds(small_truck, small_truck')
            /\ CycleEnds(big_truck, big_truck')
            /\ client'.order_quantity = client.order_quantity
                 + (IF Due(small_truck) THEN small_truck.current_load ELSE 0)
                 + (IF Due(big_truck) THEN big_truck.current_load ELSE 0)]_vars

\* the raw input of the batch a machine is processing
InFlight(m) == IF m.state = "processing" THEN Quantity(m.current_batch_size) ELSE 0

\* the material the conservation sum counts
Material ==
    m1.stored_output + InFlight(m2) + m2.stored_output
    + small_truck.current_load + big_truck.current_load + client.order_quantity

C10_OrderQuantityBoundedMonotone ==
    [][/\ client'.order_quantity >= 0
       /\ client'.order_quantity <= Full
       /\ ~ResetTaken => client'.order_quantity >= client.order_quantity]_vars

\* C10 witness: the order is complete and a truck whose delivery would have
\* exceeded it is still holding its load.
C10_Witness ==
    /\ client.order_quantity = Full
    /\ \/ big_truck.state = "delivering" /\ big_truck.time_remaining <= 0
       \/ small_truck.state = "delivering" /\ small_truck.time_remaining <= 0

\* the deadline of a priority class
Deadline(p) ==
    CASE p = "low" -> 20
      [] p = "medium" -> 15
      [] p = "high" -> 10
      [] OTHER -> 0

\* C5: from a fresh System, with enact_strategy called again and again and
\* only boundedly many "none" outcomes sampled, the run reaches a state in
\* which the client is completed and enact_strategy has returned
\* "Completed <True|False> <low|medium|high>".
C5_StrategyTerminates ==
    <>(/\ client.state = "completed"
       /\ returned.terminal
       /\ returned.priority \in Priorities)

\* C5 witness: the strategy has returned the terminal string of an order
\* that completed although "none" outcomes were sampled.
C5_Witness == returned.terminal /\ client.state = "completed" /\ noneCount = MaxNone

\* the last call was an enact_strategy call that issued a command
IssuedCommand == command \in AlphabetCommands

AnyBusy(snap) ==
    \/ ~is_idle(snap.m1)
    \/ ~is_idle(snap.m2)
    \/ ~is_available(snap.small_truck)
    \/ ~is_available(snap.big_truck)

StartedActivity == command # "step" /\ started
SteppedWhileBusy == command = "step" /\ AnyBusy(pre)

\* rule 2 fired on an M1 store that is positive but short of a third batch,
\* and the request did not start
FailedShortRequest ==
    /\ command = "m2_processing_third"
    /\ ~started
    /\ is_idle(pre.m2)
    /\ pre.m1.stored_output > 0
    /\ pre.m1.stored_output < Third

\* C6 (as claimed): while the order is incomplete, the command an
\* enact_strategy call issues either succeeds in starting the requested
\* activity or is step with at least one entity busy, so the state after the
\* call differs from the state before it.
C6_CommandStartsOrSteps ==
    IssuedCommand => ((StartedActivity \/ SteppedWhileBusy) /\ Snapshot # pre)

\* C6 (amended): while the order is incomplete, the command an
\* enact_strategy call issues starts the requested activity, or is step with
\* at least one entity busy (in both cases the state after the call differs
\* from the state before it), or is an m2_processing_third issued while
\* M1.stored_output is positive but below 1/3, which fails to start.
C6_StartsStepsOrShortRequest ==
    IssuedCommand =>
        \/ (StartedActivity \/ SteppedWhileBusy) /\ Snapshot # pre
        \/ FailedShortRequest

\* C6 witness: the strategy issued an m2_processing_third on an M1 store of
\* less than a third, and the request failed.
C6_Witness == IssuedCommand /\ FailedShortRequest

\* C7: when the client is completed, enact_strategy issues no command,
\* leaves every entity unchanged and returns "Completed <b> <priority>" with
\* the order's priority and b true iff time_passed <= deadline; calling it
\* again returns the same string.
C7_TerminalCall ==
    [][client.state = "completed" =>
         /\ UNCHANGED <<client, m1, m2, small_truck, big_truck>>
         /\ command' = "none"
         /\ returned'.terminal
         /\ returned'.priority = client.current_priority
         /\ returned'.in_time = (client.time_passed <= Deadline(client.current_priority))
         /\ returned.terminal => returned' = returned]_vars

\* C7 witness: the terminal string of an order completed after its deadline.
C7_Witness ==
    /\ returned.terminal
    /\ ~returned.in_time
    /\ client.time_passed > Deadline(client.current_priority)

\* the rules of the strategy, in order, for the entities of a snapshot
RuleTable(snap) ==
    LET m2_maintained == snap.m2.maintenance_active \/ snap.m2.state = "maintenance"
        m1_maintained == snap.m1.maintenance_active \/ snap.m1.state = "maintenance"
        short == snap.client.order_quantity < Full
    IN << <<~m2_maintained, "m2_maintenance">>,
          <<is_idle(snap.m2) /\ snap.m1.stored_output > 0 /\ short, "m2_processing_third">>,
          <<is_idle(snap.m1) /\ ~m1_maintained /\ short, "m1_maintenance">>,
          <<is_idle(snap.m1) /\ short, "m1_processing_full">>,
          <<is_available(snap.small_truck) /\ snap.m2.stored_output > 0, "small_truck_shipment">>,
          <<is_available(snap.small_truck) /\ is_available(snap.big_truck)
              /\ snap.m2.stored_output > 0, "big_truck_shipment">>,
          <<TRUE, "step">> >>

FirstMatch(rules) ==
    LET i == CHOOSE k \in 1..Len(rules) :
                 rules[k][1] /\ \A j \in 1..(k - 1) : ~rules[j][1]
    IN rules[i][2]

\* the entities a command does not touch are as they were
OthersUntouched ==
    CASE command \in M1Commands ->
            /\ client = pre.client /\ m2 = pre.m2
            /\ small_truck = pre.small_truck /\ big_truck = pre.big_truck
      [] command = "m2_maintenance" ->
            /\ client = pre.client /\ m1 = pre.m1
            /\ small_truck = pre.small_truck /\ big_truck = pre.big_truck
      [] command \in M2ProcessingCommands ->
            /\ client = pre.client
            /\ small_truck = pre.small_truck /\ big_truck = pre.big_truck
      [] command = "small_truck_shipment" ->
            client = pre.client /\ m1 = pre.m1 /\ big_truck = pre.big_truck
      [] command = "big_truck_shipment" ->
            client = pre.client /\ m1 = pre.m1 /\ small_truck = pre.small_truck
      [] OTHER -> TRUE

\* C8: when the order is incomplete, enact_strategy issues exactly one
\* command, the one of the first matching rule in the order (1) m2_maintenance,
\* (2) m2_processing_third, (3) m1_maintenance, (4) m1_processing_full,
\* (5) small_truck_shipment, (6) big_truck_shipment, (7) step, the
\* conditions being evaluated on the state before the command runs.
C8_FirstMatchingRule ==
    /\ IssuedCommand => (command = FirstMatch(RuleTable(pre)) /\ OthersUntouched)
    /\ (command # "__init__" /\ pre.client.state # "completed") => IssuedCommand

\* C8 witness: rule 2 was taken in a state where rule 3 matched as well.
C8_Witness ==
    /\ command = "m2_processing_third"
    /\ started
    /\ is_idle(pre.m1)
    /\ ~pre.m1.maintenance_active

\* the observation of a fresh System whose order has priority p
FreshObs(p) ==
    [client_current_priority |-> p,
     quantity_shipped_to_the_client |-> 0,
     time_to_penalty |-> Deadline(p),
     m1_status |-> "processing_full",
     m1_stored |-> 0,
     m1_to_completion |-> 3,
     m2_status |-> "idle",
     m2_stored |-> 0,
     m2_to_completion |-> 0,
     ts_status |-> "idle",
     ts_to_completion |-> 0,
     tb_status |-> "idle",
     tb_to_completion |-> 0]

TagMatchesQuantity(c) ==
    /\ c.state \in {"idle", "order_placed", "wait_for_completion", "completed"}
    /\ (c.state = "completed") <=> (c.order_quantity = Full)
    /\ c.state \in {"idle", "order_placed"} => c.order_quantity = 0
    /\ c.state = "wait_for_completion" => (0 < c.order_quantity /\ c.order_quantity < Full)

\* the lifecycle transitions a System call can show: reset() takes the client
\* through idle to a newly placed order; otherwise the tag changes only by a
\* delivery, from order_placed or wait_for_completion to wait_for_completion
\* or completed
LifecycleStep ==
    /\ ResetTaken => (client'.state = "order_placed" /\ client'.order_quantity = 0)
    /\ ~ResetTaken =>
          \/ client'.state = client.state
          \/ /\ client.state \in {"order_placed", "wait_for_completion"}
             /\ client'.state \in {"wait_for_completion", "completed"}
             /\ StepTaken
             /\ client'.order_quantity > client.order_quantity

\* C11: in every reachable state the client's tag matches its quantity
\* (completed iff order_quantity = 1, order_placed implies 0,
\* wait_for_completion implies strictly between 0 and 1), and the tag moves
\* only order_placed/wait_for_completion -> wait_for_completion/completed by
\* a delivery, or to a newly placed order by reset.
C11_ClientLifecycle ==
    TagMatchesQuantity(client) /\ [][TagMatchesQuantity(client') /\ LifecycleStep]_vars

\* C11 witness: the order went from a partial delivery to completed.
C11_Witness ==
    /\ client.state = "completed"
    /\ client.order_quantity = Full
    /\ small_truck.time_remaining = 0 /\ big_truck.time_remaining = 0
    /\ m2.stored_output > 0

\* a truck's load against its state and capacity
LoadMatchesState(t, capacity) ==
    /\ t.state \in {"available", "delivering"}
    /\ t.state = "available" => t.current_load = 0
    /\ t.current_load > 0 => t.state = "delivering"
    /\ t.state = "delivering" => (t.current_load > 0 /\ t.current_load <= capacity)

\* C12: in every reachable state, for each truck: available implies
\* current_load = 0, current_load > 0 implies delivering, and a delivering
\* truck's load is positive and at most its capacity (1/3 small, 1 big).
C12_TruckLoadMatchesState ==
    /\ LoadMatchesState(small_truck, SmallCapacity)
    /\ LoadMatchesState(big_truck, BigCapacity)

\* C12 witness: the small truck has come back empty from a delivery while
\* the big truck is on its way with less than its capacity.
C12_Witness ==
    /\ is_available(small_truck)
    /\ client.order_quantity > 0
    /\ ~is_available(big_truck)
    /\ big_truck.current_load < BigCapacity

\* the rates of a priority class (payment units per unit of quantity)
InTimeRate(p) ==
    CASE p = "low" -> 5
      [] p = "medium" -> 10
      [] p = "high" -> 15
      [] OTHER -> 0

LateRate(p) ==
    CASE p = "low" -> 1
      [] p = "medium" -> 2
      [] p = "high" -> 1
      [] OTHER -> 0

\* the rate of a shipment delivered when the client's clock shows time_passed
RateAt(p, time_passed) ==
    IF time_passed <= Deadline(p) THEN InTimeRate(p) ELSE LateRate(p)

\* C13: each accepted shipment of quantity q adds to current_payment exactly
\* q times the in-time rate if time_passed at the moment of the delivery is
\* <= deadline, else q times the late rate; a call that delivers nothing
\* leaves current_payment as it was; and current_payment lies between
\* late_rate * order_quantity and in_time_rate * order_quantity.
C13_PaymentPerShipment ==
    [][/\ client'.current_priority = client.current_priority
       /\ client'.current_payment - client.current_payment
            = (client'.order_quantity - client.order_quantity)
              * RateAt(client.current_priority, client.time_passed)
       /\ client'.current_payment >= LateRate(client'.current_priority) * client'.order_quantity
       /\ client'.current_payment <= InTimeRate(client'.current_priority) * client'.order_quantity]_vars

\* C13 witness: an order whose shipments were paid partly at the in-time
\* rate and partly at the late rate.
C13_Witness ==
    /\ client.order_quantity > 0
    /\ client.current_payment > LateRate(client.current_priority) * client.order_quantity
    /\ client.current_payment < InTimeRate(client.current_priority) * client.order_quantity

ActiveOrder(c) == c.state \in {"order_placed", "wait_for_completion"}

\* what a due truck with this load does to an order_quantity of quantity:
\* the client takes the load unless the order is complete or would be exceeded
Accepts(quantity, load) == quantity < Full /\ quantity + load <= Full
AfterDelivery(quantity, load) == IF Accepts(quantity, load) THEN quantity + load ELSE quantity

\* order_quantity after the small truck's delivery of this step, if it is due
AfterSmall ==
    IF Due(small_truck) THEN AfterDelivery(client.order_quantity, small_truck.current_load)
    ELSE client.order_quantity

\* order_quantity after the big truck's delivery of this step, if it is due
AfterBoth ==
    IF Due(big_truck) THEN AfterDelivery(AfterSmall, big_truck.current_load)
    ELSE AfterSmall

\* C14: within one step() the trucks deliver before the client's clock is
\* advanced, and the small truck before the big one: a delivery made by the
\* k-th step of an order is priced with time_passed = k-1 (in-time iff
\* k-1 <= deadline), the clock of an order still active after the step shows
\* one tick more, and when both trucks are due the client takes the small
\* truck's load first and the big truck's load only if it still fits.
C14_StepOrder ==
    [][(StepTaken /\ ActiveOrder(client)) =>
         /\ client'.order_quantity = AfterBoth
         /\ client'.current_payment - client.current_payment
              = (client'.order_quantity - client.order_quantity)
                * RateAt(client.current_priority, client.time_passed)
         /\ ActiveOrder(client') => client'.time_passed = client.time_passed + 1
         /\ Due(small_truck) =>
              (is_available(small_truck')
                 <=> Accepts(client.order_quantity, small_truck.current_load))
         /\ Due(big_truck) =>
              (is_available(big_truck') <=> Accepts(AfterSmall, big_truck.current_load))]_vars

\* C14 witness: both trucks were due in the step taken when the clock showed
\* deadline + 1; the client took the small truck's load at the late rate and
\* the big truck's full load no longer fitted.
C14_Witness ==
    /\ client.time_passed = Deadline(client.current_priority) + 2
    /\ client.order_quantity = Third
    /\ client.current_payment = Third * LateRate(client.current_priority)
    /\ is_available(small_truck)
    /\ ~is_available(big_truck) /\ big_truck.time_remaining = 0
    /\ big_truck.current_load = Full

\* C15: the observation of a freshly constructed System is
\* (p, 0, deadline(p), 'processing_full', 0, 3, 'idle', 0, 0, 'idle', 0,
\* 'idle', 0) for the sampled priority p: the client is in order_placed, M1
\* is processing a full batch with 3 ticks left and raw_material_consumed = 1,
\* and M2 and both trucks are idle and empty.
C15_FreshSystemObservation ==
    command = "__init__" =>
        /\ client.current_priority \in Priorities
        /\ Obs = FreshObs(client.current_priority)
        /\ client.state = "order_placed"
        /\ m1.state = "processing" /\ m1.current_batch_size = "full"
        /\ m1.time_remaining = 3 /\ m1.raw_material_consumed = Full
        /\ m2.state = "idle" /\ m2.stored_output = 0
        /\ small_truck.state = "available" /\ small_truck.current_load = 0
        /\ big_truck.state = "available" /\ big_truck.current_load = 0

\* C15 witness: a freshly constructed System whose order drew the priority
\* with the longest deadline.
C15_Witness ==
    /\ command = "__init__"
    /\ client.current_priority = "low"
    /\ Obs.time_to_penalty = 20

\* the quantities an M1 full batch can yield, in sixths: 1, 1/2, 1/3, 0
FullBatchYields == {Full, Half, Third, 0}

\* C16: after the first and the second step() of a System (fresh or reset)
\* M1 is still 'processing_full' with 2 and 1 ticks left, and right
\* after the third step() M1 is idle with m1_to_completion = 0 and
\* M1.stored_output equal to the sampled outcome (1, 1/2, 1/3 or 0), which
\* is what m1_stored shows.
C16_FirstBatchCompletesAtThirdStep ==
    /\ (ActiveOrder(client) /\ client.time_passed \in {1, 2}) =>
           /\ Obs.m1_status = "processing_full"
           /\ Obs.m1_to_completion = 3 - client.time_passed
           /\ Obs.m1_stored = 0
    /\ (command = "step" /\ ActiveOrder(client) /\ client.time_passed = 3) =>
           /\ returned.obs.m1_status = "idle"
           /\ returned.obs.m1_to_completion = 0
           /\ m1.stored_output \in FullBatchYields
           /\ returned.obs.m1_stored = m1.stored_output
           /\ returned.obs.m1_stored \in 0..6

\* C16 witness: the third step() completed M1's full batch with outcome half.
C16_Witness ==
    /\ command = "step"
    /\ client.time_passed = 3
    /\ pre.m1.state = "processing" /\ pre.m1.time_remaining = 1
    /\ m1.state = "idle"
    /\ m1.stored_output = Half

\* the order's clock has not passed the deadline of its priority
WithinDeadline(c) == c.time_passed <= Deadline(c.current_priority)

\* C17: in every observation, time_to_penalty = deadline - time_passed (a
\* value in 0..deadline) when the client has an active order and
\* time_passed <= deadline, and time_to_penalty = -1 exactly when there is
\* no active order or time_passed > deadline.
C17_TimeToPenalty ==
    /\ (ActiveOrder(client) /\ WithinDeadline(client)) =>
           /\ Obs.time_to_penalty
                  = Deadline(client.current_priority) - client.time_passed
           /\ Obs.time_to_penalty \in 0..Deadline(client.current_priority)
    /\ Obs.time_to_penalty = -1
           <=> (~ActiveOrder(client) \/ ~WithinDeadline(client))

\* C17 witness: an active order whose clock stands exactly at the deadline,
\* observed with time_to_penalty = 0.
C17_Witness ==
    /\ ActiveOrder(client)
    /\ client.time_passed = Deadline(client.current_priority)
    /\ Obs.time_to_penalty = 0

\* the command a name stands for, entity by entity
NamedCommand(name) ==
    \/ /\ name \in M1Commands
       /\ \/ /\ name = "m1_maintenance"
             /\ m1' = RequestMaintenance(m1)
          \/ \E b \in BatchSizes :
                /\ name = "m1_processing_" \o b
                /\ m1' = RequestProcessingNoSource(m1, b)
       /\ UNCHANGED <<client, m2, small_truck, big_truck>>
    \/ /\ name = "m2_maintenance"
       /\ m2' = RequestMaintenance(m2)
       /\ UNCHANGED <<client, m1, small_truck, big_truck>>
    \/ /\ \E b \in BatchSizes : name = "m2_processing_" \o b /\ m2_processing(b)
    \/ /\ name = "small_truck_shipment"
       /\ small_truck_shipment
    \/ /\ name = "big_truck_shipment"
       /\ big_truck_shipment
    \/ /\ name = "step"
       /\ StepTaken

SeqRange(s) == {s[i] : i \in 1..Len(s)}

\* C18: action(name) with a name that is neither one of the 11 alphabet
\* commands nor reset raises an error and leaves the System as it was; with
\* each of the 11 names of alphabet() it performs exactly the command of that
\* name; alphabet() does not contain reset.
C18_ActionDispatch ==
    [][/\ command' \notin AlphabetCommands \cup {"reset"} =>
            /\ returned'.raised
            /\ UNCHANGED <<client, m1, m2, small_truck, big_truck>>
       /\ command' \in SeqRange(alphabet) =>
            /\ ~returned'.raised
            /\ NamedCommand(command')
       /\ Len(alphabet) = 11
       /\ Cardinality(SeqRange(alphabet)) = 11
       /\ "reset" \notin SeqRange(alphabet)]_vars

\* C18 witness: action was called with an unknown name while M2 held output,
\* and raised.
C18_Witness ==
    /\ command = "m3_maintenance"
    /\ returned.raised
    /\ m2.stored_output > 0
    /\ Snapshot = pre

\* num/den lies in [sixths/6, (sixths + 1)/6), or is 1
InSixthBelow(num, den, sixths) ==
    /\ sixths * den <= 6 * num
    /\ (6 * num < (sixths + 1) * den \/ num = den)

\* C19: for every quantity q in [0, 1] expressed in some fixed denominator,
\* quantize(q) is a multiple of 1/6 in {0, 1/6, ..., 1}, quantize(q) <= q <
\* quantize(q) + 1/6 (or q = 1), and q1 <= q2 implies quantize(q1) <=
\* quantize(q2); inputs above 1 map to 1 and inputs below 0 map to 0.
C19_Quantize ==
    (command = "quantize" /\ started) =>
        /\ returned.value1 \in 0..6
        /\ pre.value1 \in 0..pre.den => InSixthBelow(pre.value1, pre.den, returned.value1)
        /\ pre.value1 <= pre.value2 => returned.value1 <= returned.value2
        /\ pre.value1 > pre.den => returned.value1 = 6
        /\ pre.value1 < 0 => returned.value1 = 0

\* C19 witness: 5/7 and 6/7 were quantized, to 4/6 and 5/6.
C19_Witness ==
    /\ command = "quantize" /\ started
    /\ pre.den = 7 /\ pre.value1 = 5 /\ pre.value2 = 6
    /\ returned.value1 = 4 /\ returned.value2 = 5

\* the quantities a table gives a positive weight for a batch size
Yields(table, batch_size) ==
    {Quantity(o) : o \in {x \in OutcomeNames : table[batch_size][x] > 0}}

\* the table the claim assigns to a batch completing with this flag
TableFor(maintenance_active) ==
    IF maintenance_active THEN maintenance_effect ELSE success_probabilities

\* one machine over one transition: the flag rises only when a maintenance
\* countdown completes, falls only by reset, and a batch completing in a step
\* yields a quantity of its flag's table, at most the batch's size
MaintenanceFlagStep(m, mn) ==
    /\ (~m.maintenance_active /\ mn.maintenance_active) =>
           (StepTaken /\ m.state = "maintenance" /\ m.time_remaining - 1 <= 0)
    /\ (m.maintenance_active /\ ~mn.maintenance_active) => ResetTaken
    /\ (StepTaken /\ m.state = "processing" /\ mn.state = "idle") =>
           /\ mn.maintenance_active = m.maintenance_active
           /\ mn.stored_output - m.stored_output
                  \in Yields(TableFor(m.maintenance_active), m.current_batch_size)
           /\ mn.stored_output - m.stored_output <= Quantity(m.current_batch_size)

\* C20: for each machine, maintenance_active is false until a maintenance
\* countdown completes, and once true it stays true under every command and
\* step until reset(); a batch that completes while it is true draws its
\* outcome from the maintenance table of its size and one that completes
\* while it is false from the baseline table, so the outcome quantity is never
\* larger than the batch's size.
C20_MaintenanceActive ==
    /\ ~m1.maintenance_active /\ ~m2.maintenance_active
    /\ [][MaintenanceFlagStep(m1, m1') /\ MaintenanceFlagStep(m2, m2')]_vars

\* C20 witness: M1 was maintained after its first batch and has completed a
\* second batch, of a third, with the improvement on; M2 was maintained too.
C20_Witness ==
    /\ m1.maintenance_active
    /\ m1.total_operator_time = maintenance_operator_cost
    /\ is_idle(m1)
    /\ m1.raw_material_consumed = Full + Third
    /\ client.time_passed = 6
    /\ m1.stored_output = Full + Third
    /\ m2.maintenance_active

\* the length of the activity a machine is in
Duration(m) ==
    IF m.state = "maintenance" THEN maintenance_time
    ELSE processing_times[m.current_batch_size]

\* the activity and its countdown
Activity(m) == <<m.state, m.current_batch_size, m.time_remaining>>

\* one machine over one transition that is not a reset: an activity starts
\* only from idle, with its full duration; a busy machine keeps its activity
\* under every command, and each step takes one tick off, ending in idle at 0
ActivityStep(m, mn, stepped) ==
    /\ (mn.state # "idle" /\ mn.state # m.state) =>
           (m.state = "idle" /\ ~stepped /\ mn.time_remaining = Duration(mn))
    /\ (m.state # "idle" /\ ~stepped) => Activity(mn) = Activity(m)
    /\ (m.state # "idle" /\ stepped) =>
           /\ mn.time_remaining = m.time_remaining - 1
           /\ IF m.time_remaining > 1
              THEN mn.state = m.state /\ mn.current_batch_size = m.current_batch_size
              ELSE mn.state = "idle"

\* a machine is in one of its three states, busy with 1..duration ticks left
OneActivity(m) ==
    /\ m.state \in {"idle", "processing", "maintenance"}
    /\ is_idle(m) <=> m.state = "idle"
    /\ m.state = "processing" => m.current_batch_size \in BatchSizes
    /\ m.state # "idle" => m.time_remaining \in 1..Duration(m)

\* C21: a machine's activities are exclusive and uninterruptible: a
\* processing or maintenance request succeeds only when the machine is idle;
\* a started batch of size b (or maintenance) keeps the machine in that state,
\* rejecting every further request, for exactly duration(b) (resp. 2) step()
\* calls, after which it is idle; is_idle() is true exactly when state = idle.
C21_ExclusiveActivities ==
    /\ OneActivity(m1) /\ OneActivity(m2)
    /\ [][/\ OneActivity(m1') /\ OneActivity(m2')
          /\ ~ResetTaken =>
                LET stepped == StepTaken
                IN ActivityStep(m1, m1', stepped) /\ ActivityStep(m2, m2', stepped)]_vars

\* C21 witness: both machines are in the last tick of an activity, M1 of a
\* maintenance and M2 of a half batch.
C21_Witness ==
    /\ m1.state = "maintenance" /\ m1.time_remaining = 1
    /\ m2.state = "processing" /\ m2.current_batch_size = "half"
    /\ m2.time_remaining = 1

\* a machine's store rises only in a step that completes its batch, by a
\* quantity its outcome table allows
RisesByOwnBatch(m, mn) ==
    mn.stored_output > m.stored_output =>
        /\ command' = "step"
        /\ Completes(m)
        /\ mn.stored_output - m.stored_output
               \in Yields(TableFor(m.maintenance_active), m.current_batch_size)

\* M1's store falls only by what an idle M2's processing request retrieves
M1FallsByM2Request ==
    m1'.stored_output < m1.stored_output =>
        /\ command' \in M2ProcessingCommands
        /\ is_idle(m2)
        /\ m1.stored_output - m1'.stored_output = Min(Need(command'), m1.stored_output)

\* M2's store falls only by what a truck's shipment request loads
M2FallsByShipment ==
    m2'.stored_output < m2.stored_output =>
        \/ /\ command' = "small_truck_shipment"
           /\ is_available(small_truck)
           /\ m2.stored_output - m2'.stored_output = small_truck'.current_load
        \/ /\ command' = "big_truck_shipment"
           /\ is_available(big_truck)
           /\ m2.stored_output - m2'.stored_output = big_truck'.current_load

\* C22: for each machine, stored_output is never negative, it increases only
\* in a step in which that machine's own processing countdown completes (by
\* the sampled outcome quantity), and it decreases only through a retrieval by
\* its downstream consumer (M2's processing request for M1, a truck's
\* shipment request for M2); maintenance, failed requests on the machine
\* itself and all other steps leave it unchanged.
C22_StoredOutputFrame ==
    [][/\ m1'.stored_output >= 0 /\ m2'.stored_output >= 0
       /\ command' # "reset" =>
             /\ RisesByOwnBatch(m1, m1') /\ RisesByOwnBatch(m2, m2')
             /\ M1FallsByM2Request
             /\ M2FallsByShipment]_vars

\* C22 witness: a shipment request has just taken stock that M2 produced
\* out of M2's store, while M1 holds output of its own.
C22_Witness ==
    /\ command \in {"small_truck_shipment", "big_truck_shipment"}
    /\ started
    /\ m2.stored_output < pre.m2.stored_output
    /\ m1.stored_output > 0

\* the truck's shipment request succeeded in this transition
Loaded(t, tn) == is_available(t) /\ tn.state = "delivering"

\* a successful request loads min(capacity, stock) and takes it off M2
LoadsFromStock(t, tn, capacity) ==
    Loaded(t, tn) =>
        /\ tn.current_load = Min(capacity, m2.stored_output)
        /\ tn.current_load > 0
        /\ m2'.stored_output = m2.stored_output - tn.current_load

\* the truck was loaded by a command after the last step
JustLoaded(t, time_to_deliver) ==
    t.state = "delivering" /\ t.time_remaining = time_to_deliver

\* the other truck is commanded right after the first: the first keeps its
\* load, the second takes from what the first left, and both loads together
\* are within the stock M2 held before the first command
SecondGetsTheRest(first, time_to_deliver, firstn, second, secondn, capacity) ==
    (JustLoaded(first, time_to_deliver) /\ Loaded(second, secondn)) =>
        LET before == m2.stored_output + first.current_load
        IN /\ firstn = first
           /\ secondn.current_load = Min(capacity, before - first.current_load)
           /\ first.current_load + secondn.current_load <= before
           /\ m2'.stored_output = before - first.current_load - secondn.current_load

\* C23: a successful truck shipment request loads exactly min(capacity,
\* M2.stored_output) and reduces M2.stored_output by that amount; when both
\* shipment commands are issued one after the other, the first truck
\* commanded claims its share first and the second gets only what is left,
\* so the two loads together never exceed the stock M2 held before the first
\* command.
C23_ShipmentsShareStock ==
    [][/\ LoadsFromStock(small_truck, small_truck', SmallCapacity)
       /\ LoadsFromStock(big_truck, big_truck', BigCapacity)
       /\ SecondGetsTheRest(small_truck, SmallTimeToDeliver, small_truck',
                            big_truck, big_truck', BigCapacity)
       /\ SecondGetsTheRest(big_truck, BigTimeToDeliver, big_truck',
                            small_truck, small_truck', SmallCapacity)]_vars

\* C23 witness: of a stock of 1 the small truck took its 1/3 and the big
\* truck, commanded next, the 2/3 that were left.
C23_Witness ==
    /\ JustLoaded(small_truck, SmallTimeToDeliver)
    /\ JustLoaded(big_truck, BigTimeToDeliver)
    /\ small_truck.current_load = Third
    /\ big_truck.current_load = Full - Third
    /\ m2.stored_output = 0

\* C24: in every observation, each machine's ticks-remaining field
\* (m1_to_completion, m2_to_completion) equals that machine's time_remaining
\* countdown: the remaining maintenance ticks while the status tag is
\* 'maintenance', the remaining processing ticks while it is
\* 'processing_<size>', and 0 when the machine is idle.
C24_TicksRemainingShown ==
    /\ Obs.m1_to_completion = m1.time_remaining
    /\ Obs.m2_to_completion = m2.time_remaining
    /\ returned.obs.m1_status = "maintenance" => returned.obs.m1_to_completion > 0
    /\ returned.obs.m2_status = "maintenance" => returned.obs.m2_to_completion > 0

\* the last enact_strategy call executed a command and built the extended
\* observation from the entities as they were before the command
ExtendedObservationBuilt == command \in AlphabetCommands /\ ~returned.terminal

\* the raw input of the batch a machine is processing, else 0
BatchInFlight(m) == IF m.state = "processing" THEN Quantity(m.current_batch_size) ELSE 0

\* C25: in the extended observation built by enact_strategy,
\* processing_m2_amount equals the raw input of the batch M2 is processing
\* (1 for full, 1/2 for half, 1/3 for third) whenever M2 is in the processing
\* state and 0 otherwise, and total_material equals M1.stored_output +
\* processing_m2_amount + M2.stored_output + loads of delivering trucks +
\* client order_quantity.
C25_InFlightAmount ==
    ExtendedObservationBuilt =>
        /\ processing_m2_amount(pre.m2.state) = BatchInFlight(pre.m2)
        /\ total_material(pre.client, pre.m1, pre.m2, pre.small_truck, pre.big_truck)
              = pre.m1.stored_output + BatchInFlight(pre.m2) + pre.m2.stored_output
                + (IF pre.small_truck.state = "delivering"
                   THEN pre.small_truck.current_load ELSE 0)
                + (IF pre.big_truck.state = "delivering"
                   THEN pre.big_truck.current_load ELSE 0)
                + pre.client.order_quantity

\* the truck's delivery in the next step is one the client rejects with an
\* error (c: the client as the truck finds it)
Raises(t, c) ==
    /\ t.state = "delivering"
    /\ t.time_remaining - 1 <= 0
    /\ ~QuantityShippedOk(c, t.current_load)

\* the truck was stepped: a delivering truck is one tick further
TruckAdvanced(t, tn) ==
    t.state = "delivering" => tn.time_remaining = t.time_remaining - 1

\* the client was stepped: an active order's clock is one tick further
ClockAdvanced ==
    ActiveOrder(client') => client'.time_passed = client.time_passed + 1

\* C26: an error raised by one entity during System.step() (a truck whose
\* delivery the client rejects) is swallowed and does not stop the tick:
\* every entity later in the order is still advanced by one tick (the other
\* truck steps and the client's time_passed is incremented if its order is
\* active).
C26_ErrorsDoNotStopTheTick ==
    [][StepTaken =>
          /\ Raises(small_truck, client) =>
                (TruckAdvanced(big_truck, big_truck') /\ ClockAdvanced)
          /\ Raises(big_truck, ClientAfterTruckStep(small_truck, client)) =>
                (TruckAdvanced(small_truck, small_truck') /\ ClockAdvanced)]_vars

\* C26 witness: the big truck's delivery of a full load was rejected in the
\* last step, the order is still active and both trucks are past their
\* countdown.
C26_Witness ==
    /\ big_truck.state = "delivering"
    /\ big_truck.time_remaining = 0
    /\ big_truck.current_load = Full
    /\ client.state = "wait_for_completion"
    /\ client.order_quantity = Third
    /\ client.time_passed > 0

\* the last call on the Client violated its precondition
PlaceOrderViolates == command = "place_order" /\ pre.client.state # "idle"
QuantityShippedViolates ==
    /\ command = "quantity_shipped"
    /\ \/ pre.client.state \in {"idle", "completed"}
       \/ pre.quantity <= 0
       \/ pre.client.order_quantity + pre.quantity > Full

\* C27: Client operations that violate their precondition fail and leave the
\* client unchanged: place_order() when state is not idle; quantity_shipped(q)
\* when state is idle or completed, when q <= 0, or when order_quantity + q >
\* 1.  State, priority, time_passed, order_quantity and current_payment keep
\* their previous values.
C27_FailedClientCalls ==
    (PlaceOrderViolates \/ QuantityShippedViolates) =>
        /\ returned.raised
        /\ client.state = pre.client.state
        /\ client.current_priority = pre.client.current_priority
        /\ client.time_passed = pre.client.time_passed
        /\ client.order_quantity = pre.client.order_quantity
        /\ client.current_payment = pre.client.current_payment

\* C27 witness: a shipment of 1/2 offered to an order that already holds 2/3
\* was refused after time had passed.
C27_Witness ==
    /\ command = "quantity_shipped"
    /\ pre.quantity = Half
    /\ client.state = "wait_for_completion"
    /\ client.order_quantity = 2 * Third
    /\ client.time_passed > 0
    /\ returned.raised

\* the shipments accepted in this transition were paid at the in-time rate
PaidInTime ==
    client'.current_payment - client.current_payment
        = (client'.order_quantity - client.order_quantity)
          * InTimeRate(client.current_priority)

\* C28: the client's time_passed increases by exactly 1 on each
\* System.step() in which step_time finds the order active (order_placed or
\* wait_for_completion) and is unchanged by every step once the order is
\* completed and by every non-step command; hence the True/False flag of the
\* terminal string `Completed <b> <priority>` equals whether the final
\* shipment was paid at the in-time rate, no matter how many steps are taken
\* after completion.
C28_ClockStopsAtCompletion ==
    [][~ResetTaken =>
          LET stepped == StepTaken
          IN /\ (stepped /\ ActiveOrder(client')) =>
                   client'.time_passed = client.time_passed + 1
             /\ (stepped /\ ~ActiveOrder(client')) =>
                   client'.time_passed = client.time_passed
             /\ ~stepped => client'.time_passed = client.time_passed
             /\ (ActiveOrder(client) /\ client'.state = "completed") =>
                   (CompletedInTime(client') <=> PaidInTime)
             /\ client.state = "completed" =>
                   /\ client'.state = "completed"
                   /\ CompletedInTime(client') <=> CompletedInTime(client)]_vars

\* C28 witness: the order was completed by a shipment paid late, steps have
\* been taken since (a truck that arrived afterwards is overdue), and the
\* flag is False.
C28_Witness ==
    /\ client.state = "completed"
    /\ ~CompletedInTime(client)
    /\ client.time_passed = Deadline(client.current_priority) + 1
    /\ small_truck.state = "delivering"
    /\ small_truck.time_remaining < 0

\* rule 6 asks for everything rule 5 asks for (small truck idle, M2 has
\* output) and more, so wherever rule 6 would match rule 5 has matched:
\* the strategy never chooses big_truck_shipment
NeverChoosesBigTruck ==
    /\ Chosen # "big_truck_shipment"
    /\ command # "big_truck_shipment"

\* C29: rule 6 of the strategy is reachable: in a run of enact_strategy
\* calls from a fresh System, enact_strategy at some point issues
\* big_truck_shipment (both trucks idle, M2 has stored output, no earlier
\* rule matches), so the big truck takes part in strategy-driven runs.
C29_BigTruckTakesPart == <>(command = "big_truck_shipment")

\* the last call was of the command enact_strategy chooses in the state
\* before it, with the order incomplete: what an enact_strategy call does there
StrategyChoiceIssued ==
    /\ command \in AlphabetCommands
    /\ ~StrategyTerminal(pre.client)
    /\ command = StrategyCommand(pre.client, pre.m1, pre.m2,
                                 pre.small_truck, pre.big_truck)

\* C30: in every state reachable by any sequence of alphabet commands in
\* which the order is incomplete, an enact_strategy call changes the System
\* state; it cannot select forever a command that fails as a no-op (e.g.
\* m2_maintenance while M2 is processing and not yet maintained) without
\* ever issuing step.
C30_StrategyCallChangesState == StrategyChoiceIssued => Snapshot # pre

\* ---------------------------------------------------------------- C31
\* a truck that is delivering still has ticks to go
OnItsWay(t) == t.state = "delivering" => t.time_remaining >= 1

\* the client Truck.step hands the load to takes it
WillBeTaken(t, c) == Due(t) => QuantityShippedOk(c, t.current_load)

\* the transition ends the truck's delivery
Delivers(t, tn) == t.state = "delivering" /\ tn.state = "available"

\* C31: in runs from a fresh System driven by enact_strategy alone the
\* client never rejects a delivery: a truck whose countdown is about to reach
\* zero finds an active order with order_quantity + load <= 1 (the big truck
\* after the small one), no truck is delivering with its countdown at zero
\* or below, a delivery ends only by crediting the load to the client, and
\* every truck that was loaded is eventually available again.
C31_NoRejectedDelivery ==
    /\ [](/\ OnItsWay(small_truck)
          /\ OnItsWay(big_truck)
          /\ WillBeTaken(small_truck, client)
          /\ WillBeTaken(big_truck, ClientAfterTruckStep(small_truck, client)))
    /\ [][/\ (Delivers(small_truck, small_truck') \/ Delivers(big_truck, big_truck'))
               => client'.order_quantity = client.order_quantity
                    + (IF Delivers(small_truck, small_truck')
                       THEN small_truck.current_load ELSE 0)
                    + (IF Delivers(big_truck, big_truck')
                       THEN big_truck.current_load ELSE 0)
          /\ client'.order_quantity # client.order_quantity
               => (Delivers(small_truck, small_truck') \/ Delivers(big_truck, big_truck'))]_vars
    /\ (small_truck.state = "delivering") ~> (small_truck.state = "available")
    /\ (big_truck.state = "delivering") ~> (big_truck.state = "available")

\* C31 witness: the strategy's step made the small truck's countdown reach
\* zero with the load that fills the order exactly, and the client took it.
C31_Witness ==
    /\ command = "step"
    /\ Due(pre.small_truck)
    /\ pre.client.order_quantity + pre.small_truck.current_load = Full
    /\ is_available(small_truck)
    /\ client.order_quantity = Full
    /\ client.state = "completed"

\* ---------------------------------------------------------------- C32
M1ProcessingCommands == {"m1_processing_third", "m1_processing_half", "m1_processing_full"}

\* what the call of this transition adds to M1.raw_material_consumed
RawDrawn ==
    IF command' \in M1ProcessingCommands /\ started' THEN Need(command') ELSE 0

ObservedCountdownsBounded ==
    /\ Obs.m1_to_completion \in 0..processing_times["full"]
    /\ Obs.m2_to_completion \in 0..processing_times["full"]
    /\ Obs.ts_to_completion \in 0..SmallTimeToDeliver
    /\ Obs.tb_to_completion \in 0..BigTimeToDeliver

\* a machine's time_remaining is 0 when idle and within its duration when busy
MachineCountdownBounded(m) ==
    IF is_idle(m) THEN m.time_remaining = 0
    ELSE m.time_remaining \in 1..Duration(m)

\* a truck's time_remaining is 0 when available and within its delivery time
\* when delivering
TruckCountdownBounded(t, time_to_deliver) ==
    IF is_available(t) THEN t.time_remaining = 0
    ELSE t.time_remaining \in 1..time_to_deliver

\* C33: in every reachable observation m1_to_completion and m2_to_completion
\* are in 0..3, ts_to_completion is in 0..2 and tb_to_completion is in 0..3;
\* and every machine's and truck's time_remaining is 0 when it is idle or
\* available and between 1 and its configured duration while it is busy.
C33_CountdownsBounded ==
    /\ ObservedCountdownsBounded
    /\ MachineCountdownBounded(m1)
    /\ MachineCountdownBounded(m2)
    /\ TruckCountdownBounded(small_truck, SmallTimeToDeliver)
    /\ TruckCountdownBounded(big_truck, BigTimeToDeliver)

\* ------------------------------------------------- quantities as Python floats
\* A quantity x of the program is a double.  Every quantity that occurs is
\* within a few units in the last place of a multiple of 1/6, and is written
\* here as [s, r] with x = s/6 + r * Unit, Unit = 1/(3 * 2^55): 1.0 is [6, 0],
\* 0.5 is [3, 0] and the double 1/3 is [2, -2].
Float(s, r) == [s |-> s, r |-> r]
FloatZero == Float(0, 0)

\* the double of a batch size or outcome: 1.0, 0.5, 1/3
FloatQuantity(size) ==
    CASE size = "full" -> Float(6, 0)
      [] size = "half" -> Float(3, 0)
      [] size = "third" -> Float(2, -2)
      [] OTHER -> FloatZero

\* x >= k/6 for the exact value x = [s, r]
AtLeastSixths(x, k) == x.s > k \/ (x.s = k /\ x.r >= 0)

\* the exponent j of the binade of the exact value [s, r], s >= 1: one unit
\* in the last place is 3 * 2^j Units (2^-55 in [1/8, 1/4), 2^-54 in
\* [1/4, 1/2), 2^-53 in [1/2, 1), 2^-52 in [1, 2), ...)
Binade(x) ==
    IF AtLeastSixths(x, 192) THEN 8
    ELSE IF AtLeastSixths(x, 96) THEN 7
    ELSE IF AtLeastSixths(x, 48) THEN 6
    ELSE IF AtLeastSixths(x, 24) THEN 5
    ELSE IF AtLeastSixths(x, 12) THEN 4
    ELSE IF AtLeastSixths(x, 6) THEN 3
    ELSE IF AtLeastSixths(x, 3) THEN 2
    ELSE IF x.s > 1 THEN 1
    ELSE 0

RECURSIVE Pow2(_)
Pow2(j) == IF j = 0 THEN 1 ELSE 2 * Pow2(j - 1)

\* round-to-nearest, ties-to-even, of the exact value [s, r] to a double.
\* In Units the value is s * 2^54 + r; modulo the unit in the last place
\* 3 * 2^j, s * 2^54 is 2^j * c with c = (s * 2^(54-j)) mod 3.
FloatRound(x) ==
    IF x.s = 0 THEN x
    ELSE LET j == Binade(x)
             ulp == 3 * Pow2(j)
             c == (x.s * (IF j % 2 = 0 THEN 1 ELSE 2)) % 3
             t == Pow2(j) * c + x.r
             q == t \div ulp
             rem == t % ulp
             up == IF 2 * rem = ulp THEN (c + q) % 2 = 1 ELSE 2 * rem > ulp
             tn == ulp * (IF up THEN q + 1 ELSE q)
         IN Float(x.s, tn - Pow2(j) * c)

\* Python's x + y and x - y on doubles
FloatAdd(x, y) == FloatRound(Float(x.s + y.s, x.r + y.r))
FloatSub(x, y) == FloatRound(Float(x.s - y.s, x.r - y.r))

\* Python's x * n for a double x and an int n
FloatMul(x, n) == FloatRound(Float(n * x.s, n * x.r))

\* Python's x < y, x <= y and min(x, y) on doubles
FloatLess(x, y) == x.s < y.s \/ (x.s = y.s /\ x.r < y.r)
FloatLeq(x, y) == x = y \/ FloatLess(x, y)
FloatMin(x, y) == IF FloatLess(y, x) THEN y ELSE x

\* System.get_state's quantize on a double: int(max(0, min(1, value)) * 6),
\* the result in sixths.  value * 6 is s + r * 2^-54 exactly; below s it is
\* rounded to a double whose unit in the last place is 2 * ulp6 times 2^-54,
\* and a product that rounds to s itself gives s.
FloatQuantize(x) ==
    IF FloatLeq(x, FloatZero) THEN 0
    ELSE IF FloatLeq(Float(6, 0), x) THEN 6
    ELSE IF x.r >= 0 THEN x.s
    ELSE LET half == CASE x.s = 1 -> 1 [] x.s = 2 -> 2 [] x.s \in {3, 4} -> 4 [] OTHER -> 8
         IN IF -x.r <= half THEN x.s ELSE x.s - 1

\* the doubles of the System's configuration and of Client's comparisons
FloatOne == Float(6, 0)
FloatSmallCapacity == Float(2, -2)
FloatBigCapacity == Float(6, 0)

\* Client.place_order, Machine.__init__ and Truck.__init__ with the
\* quantities as doubles
FloatClientPlaced(p) ==
    [ClientPlaceOrder(ClientNew, p) EXCEPT !.order_quantity = FloatZero,
                                           !.current_payment = FloatZero]
FloatMachineNew ==
    [MachineNew EXCEPT !.stored_output = FloatZero, !.raw_material_consumed = FloatZero]
FloatTruckNew == [TruckNew EXCEPT !.current_load = FloatZero]

\* Client.quantity_shipped on doubles
FloatQuantityShippedOk(c, quantity) ==
    /\ c.state \in {"order_placed", "wait_for_completion"}
    /\ ~(FloatLeq(quantity, FloatZero)
         \/ FloatLess(FloatOne, FloatAdd(c.order_quantity, quantity)))

FloatClientQuantityShipped(c, quantity) ==
    IF ~FloatQuantityShippedOk(c, quantity) THEN c
    ELSE LET payment == IF c.time_passed <= time_limit(c)
                        THEN FloatMul(quantity, in_time_payment(c))
                        ELSE FloatMul(quantity, out_of_time_payment(c))
             oq == FloatAdd(c.order_quantity, quantity)
         IN [c EXCEPT !.order_quantity = oq,
                      !.current_payment = FloatAdd(c.current_payment, payment),
                      !.state = IF FloatLeq(FloatOne, oq) THEN "completed"
                                ELSE "wait_for_completion"]

\* Machine.retrieve_quantity on doubles
FloatRetrieveAmount(m, max_quantity) == FloatMin(max_quantity, m.stored_output)
FloatRetrieveQuantity(m, max_quantity) ==
    [m EXCEPT !.stored_output = FloatSub(m.stored_output, FloatRetrieveAmount(m, max_quantity))]

\* Machine.request_processing on doubles, without a source (M1)
FloatRequestProcessingNoSource(m, batch_size) ==
    IF ~ProcessingStartsNoSource(m) THEN m
    ELSE [m EXCEPT !.raw_material_consumed =
                       FloatAdd(m.raw_material_consumed, FloatQuantity(batch_size)),
                   !.state = "processing",
                   !.current_batch_size = batch_size,
                   !.time_remaining = processing_times[batch_size]]

\* Machine.request_processing on doubles, with a source (M2 with source M1)
FloatProcessingStartsFromSource(m, src, batch_size) ==
    /\ m.state = "idle"
    /\ ~FloatLess(FloatRetrieveAmount(src, FloatQuantity(batch_size)), FloatQuantity(batch_size))

FloatRequestProcessingFromSource(m, src, batch_size) ==
    IF ~FloatProcessingStartsFromSource(m, src, batch_size) THEN m
    ELSE [m EXCEPT !.state = "processing",
                   !.current_batch_size = batch_size,
                   !.time_remaining = processing_times[batch_size]]

FloatSourceAfterRequest(m, src, batch_size) ==
    IF m.state # "idle" THEN src
    ELSE FloatRetrieveQuantity(src, FloatQuantity(batch_size))

\* Machine.step on doubles with the sampled outcome
FloatMachineStep(m, outcome) ==
    IF m.state = "processing" THEN
        IF m.time_remaining - 1 <= 0
        THEN [m EXCEPT !.time_remaining = m.time_remaining - 1,
                       !.stored_output =
                           IF outcome # "none"
                           THEN FloatAdd(m.stored_output, FloatQuantity(outcome))
                           ELSE m.stored_output,
                       !.state = "idle",
                       !.current_batch_size = "none"]
        ELSE [m EXCEPT !.time_remaining = m.time_remaining - 1]
    ELSE MachineStep(m, outcome)

\* Truck.request_shipment on doubles
FloatShipmentStarts(t, src, capacity) ==
    /\ t.state = "available"
    /\ ~FloatLeq(FloatRetrieveAmount(src, capacity), FloatZero)

FloatRequestShipment(t, src, capacity, time_to_deliver) ==
    IF ~FloatShipmentStarts(t, src, capacity) THEN t
    ELSE [t EXCEPT !.current_load = FloatRetrieveAmount(src, capacity),
                   !.state = "delivering",
                   !.time_remaining = time_to_deliver]

FloatSourceAfterShipment(t, src, capacity) ==
    IF t.state # "available" THEN src
    ELSE FloatRetrieveQuantity(src, capacity)

\* Truck.step on doubles
FloatTruckStep(t, c) ==
    IF t.state = "delivering" THEN
        IF t.time_remaining - 1 <= 0 THEN
            IF FloatQuantityShippedOk(c, t.current_load)
            THEN [t EXCEPT !.time_remaining = t.time_remaining - 1,
                           !.state = "available",
                           !.current_load = FloatZero]
            ELSE [t EXCEPT !.time_remaining = t.time_remaining - 1]
        ELSE [t EXCEPT !.time_remaining = t.time_remaining - 1]
    ELSE t

FloatClientAfterTruckStep(t, c) ==
    IF t.state = "delivering" /\ t.time_remaining - 1 <= 0
    THEN FloatClientQuantityShipped(c, t.current_load)
    ELSE c

\* System.get_state: the trucks' status tags, from loads that are doubles
FloatSmallTruckStatus(t) ==
    IF t.state = "delivering"
    THEN IF t.current_load = FloatZero THEN "shipping_zero" ELSE "shipping_third"
    ELSE "idle"

FloatBigTruckStatus(t) ==
    IF t.state = "delivering"
    THEN LET load == FloatQuantize(t.current_load)
         IN IF load = 0 THEN "shipping_zero"
            ELSE IF load <= Third THEN "shipping_third"
            ELSE IF load <= 2 * Third THEN "shipping_half"
            ELSE "shipping_full"
    ELSE "idle"

\* ------------------------- calls on a System whose quantities are doubles
\* FloatStep issues step() only while an active order's time_passed is < MaxFloatTime
MaxFloatTime == 8
\* M1 is asked for a batch only while the sixths it has drawn stay <= MaxFloatRaw
MaxFloatRaw == 8

InitFloat ==
    /\ client = FloatClientPlaced(LongPriority)
    /\ m1 = FloatRequestProcessingNoSource(FloatMachineNew, "full")
    /\ m2 = FloatMachineNew
    /\ small_truck = FloatTruckNew
    /\ big_truck = FloatTruckNew
    /\ command = "__init__"
    /\ started = TRUE
    /\ pre = [client |-> ClientNew, m1 |-> MachineNew, m2 |-> MachineNew,
              small_truck |-> TruckNew, big_truck |-> TruckNew]
    /\ returned = Returned(ClientNew, MachineNew, MachineNew, TruckNew, TruckNew)
    /\ noneCount = 0

FloatM1Processing ==
    \E b \in BatchSizes :
        /\ is_idle(m1) => m1.raw_material_consumed.s + Quantity(b) <= MaxFloatRaw
        /\ m1' = FloatRequestProcessingNoSource(m1, b)
        /\ UNCHANGED <<client, m2, small_truck, big_truck>>
        /\ NoBookkeeping

FloatM2Processing ==
    \E b \in BatchSizes :
        /\ m2' = FloatRequestProcessingFromSource(m2, m1, b)
        /\ m1' = FloatSourceAfterRequest(m2, m1, b)
        /\ UNCHANGED <<client, small_truck, big_truck>>
        /\ NoBookkeeping

FloatM1Maintenance == OperatorTimeWithinBound(m1) /\ m1_maintenance /\ NoBookkeeping
FloatM2Maintenance == OperatorTimeWithinBound(m2) /\ m2_maintenance /\ NoBookkeeping

FloatSmallTruckShipment ==
    /\ small_truck' = FloatRequestShipment(small_truck, m2, FloatSmallCapacity, SmallTimeToDeliver)
    /\ m2' = FloatSourceAfterShipment(small_truck, m2, FloatSmallCapacity)
    /\ UNCHANGED <<client, m1, big_truck>>
    /\ NoBookkeeping

FloatBigTruckShipment ==
    /\ big_truck' = FloatRequestShipment(big_truck, m2, FloatBigCapacity, BigTimeToDeliver)
    /\ m2' = FloatSourceAfterShipment(big_truck, m2, FloatBigCapacity)
    /\ UNCHANGED <<client, m1, small_truck>>
    /\ NoBookkeeping

FloatStep ==
    /\ StepWithinBound(MaxFloatTime)
    /\ \E o1 \in Outcomes(m1), o2 \in Outcomes(m2) :
          LET c1 == FloatClientAfterTruckStep(small_truck, client)
              c2 == FloatClientAfterTruckStep(big_truck, c1)
          IN /\ m1' = FloatMachineStep(m1, o1)
             /\ m2' = FloatMachineStep(m2, o2)
             /\ small_truck' = FloatTruckStep(small_truck, client)
             /\ big_truck' = FloatTruckStep(big_truck, c1)
             /\ client' = ClientStepTime(c2)
    /\ NoBookkeeping

NextFloat ==
    \/ FloatM1Processing
    \/ FloatM2Processing
    \/ FloatM1Maintenance
    \/ FloatM2Maintenance
    \/ FloatSmallTruckShipment
    \/ FloatBigTruckShipment
    \/ FloatStep

\* a fresh System with quantities as doubles, any sequence of alphabet commands
SpecFloat == InitFloat /\ [][NextFloat]_vars

\* ---------------------------------------------------------------- C34
\* the tag the claim gives a big truck carrying k sixths
TagForSixths(k) ==
    IF k \in {1, 2} THEN "shipping_third"
    ELSE IF k \in {3, 4} THEN "shipping_half"
    ELSE IF k \in {5, 6} THEN "shipping_full"
    ELSE "none"

\* C34: the truck status tag 'shipping_zero' is never observed for either
\* truck, the small truck's tag is always 'idle' or 'shipping_third', and the
\* big truck's tag is 'shipping_third' for loads 1/6 and 1/3, 'shipping_half'
\* for loads 1/2 and 2/3 and 'shipping_full' for loads 5/6 and 1 (the load
\* being the multiple of 1/6 that the double current_load stands for).
C34_TruckTags ==
    /\ FloatSmallTruckStatus(small_truck) \in {"idle", "shipping_third"}
    /\ FloatBigTruckStatus(big_truck) # "shipping_zero"
    /\ big_truck.state = "delivering"
         => FloatBigTruckStatus(big_truck) = TagForSixths(big_truck.current_load.s)

\* ---------------------------------------------------------------- C35
\* the step just taken completed a batch of the machine that yielded less
\* than the batch size requested (a degraded or lost outcome)
ShortBatch(m, mpre) ==
    /\ Completes(mpre)
    /\ m.stored_output - mpre.stored_output < Quantity(mpre.current_batch_size)

SomeBatchShort ==
    command = "step" /\ (ShortBatch(m1, pre.m1) \/ ShortBatch(m2, pre.m2))

\* the step just taken completed M1's first batch, the one started at
\* construction, with a degraded or lost outcome
FirstBatchShort ==
    /\ command = "step"
    /\ pre.m1.raw_material_consumed = Full
    /\ ShortBatch(m1, pre.m1)

\* enact_strategy will answer 'Completed True high'
InTimeHigh ==
    /\ StrategyTerminal(client)
    /\ client.current_priority = "high"
    /\ CompletedInTime(client)

\* the order is not completed before the 10th step
NotBeforeTenthStep == client.state = "completed" => client.time_passed >= 9

\* C35 (as claimed): in runs from a fresh System driven by enact_strategy
\* alone the order is never completed before the 10th step (time_passed >= 9
\* at completion), and 'Completed True high' is reached only when no batch
\* outcome was degraded or lost.
C35_InTimeOnlyWithoutLoss ==
    /\ []NotBeforeTenthStep
    /\ [](SomeBatchShort => []~InTimeHigh)

\* C35 (amended): in those runs the order is never completed before the 10th
\* step (time_passed >= 9 at completion), and 'Completed True high' is
\* reached only when M1's first batch was neither degraded nor lost.
C35_EarliestCompletion ==
    /\ []NotBeforeTenthStep
    /\ [](FirstBatchShort => []~InTimeHigh)

\* C35 witness: a high-priority order completed by the 10th step, with
\* time_passed = 9, every batch so far having yielded in full.
C35_Witness ==
    /\ InTimeHigh
    /\ client.time_passed = 9
    /\ command = "step"
    /\ noneCount = 0

\* ---------------------------------------------------------------- C36
\* the booleans in the extended observation of the last enact_strategy call
ReturnedFlags == running_flags(pre.m1, pre.m2, pre.small_truck, pre.big_truck)

\* C36: in the extended observation returned by one enact_strategy call the
\* running and maintenance-active booleans describe the same state as the 13
\* base fields of that observation: m1_running is true iff m1_status is not
\* 'idle', likewise m2_running, ts_running and tb_running, and a machine's
\* maintenance-active boolean is that of the state the base fields show.
C36_BooleansMatchBaseFields ==
    ExtendedObservationBuilt =>
        /\ ReturnedFlags.m1_running <=> returned.obs.m1_status # "idle"
        /\ ReturnedFlags.m2_running <=> returned.obs.m2_status # "idle"
        /\ ReturnedFlags.ts_running <=> returned.obs.ts_status # "idle"
        /\ ReturnedFlags.tb_running <=> returned.obs.tb_status # "idle"
        /\ ReturnedFlags = running_flags(m1, m2, small_truck, big_truck)

\* ---------------------------------------------------------------- C37
\* the machine has been maintained at most once, and not at all before its
\* maintenance was requested
MaintainedOnce(m) ==
    /\ m.total_operator_time \in {0, maintenance_operator_cost}
    /\ (m.maintenance_active \/ m.state = "maintenance")
         <=> m.total_operator_time = maintenance_operator_cost

\* the batches a machine processes are sampled from the improved table
BatchesImproved(m) == m.state = "processing" => Probabilities(m) = maintenance_effect[m.current_batch_size]

\* M1's first batch, the one started at construction, is sampled from the
\* baseline table, every later one from the improved table
M1FirstBatchBaseline ==
    m1.state = "processing" =>
        IF m1.raw_material_consumed = Full
        THEN Probabilities(m1) = success_probabilities[m1.current_batch_size]
        ELSE Probabilities(m1) = maintenance_effect[m1.current_batch_size]

\* C37: in runs from a fresh System driven by enact_strategy alone, M2's
\* maintenance is requested by the very first call and is complete before M2
\* ever starts processing, so every batch M2 completes is sampled from the
\* maintenance-improved table; M1's first batch is sampled from the baseline
\* table and every later M1 batch from the improved table; every maintenance
\* request the strategy issues starts a maintenance, and each machine is
\* maintained exactly once by the time the order is completed.
C37_MaintenanceBeforeProcessing ==
    /\ [](/\ BatchesImproved(m2)
          /\ M1FirstBatchBaseline
          /\ MaintainedOnce(m1)
          /\ MaintainedOnce(m2)
          /\ StrategyTerminal(client) =>
                /\ m1.maintenance_active /\ m1.total_operator_time = maintenance_operator_cost
                /\ m2.maintenance_active /\ m2.total_operator_time = maintenance_operator_cost)
    /\ [][/\ command = "__init__" => (command' = "m2_maintenance" /\ started')
          /\ command' \in {"m1_maintenance", "m2_maintenance"} => started'
          /\ (m2.state # "processing" /\ m2'.state = "processing") => m2.maintenance_active]_vars

\* C37 witness: both machines, each maintained once, are processing: M2 a
\* third batch and M1 its second full batch, both under the improved table.
C37_Witness ==
    /\ m1.state = "processing" /\ m1.raw_material_consumed = 2 * Full
    /\ m1.maintenance_active /\ m1.total_operator_time = maintenance_operator_cost
    /\ m2.state = "processing"
    /\ m2.maintenance_active /\ m2.total_operator_time = maintenance_operator_cost

====
